---- MODULE Spec2Model ----
(***************************************************************************)
(* Stackline simulation engine: FullTile, Pane (update/commit cycle),      *)
(* UpdateContext, UpdateCommit, World, and the tile library (Wire, Diode,  *)
(* Resistor, Teleporter, Sender).                                          *)
(*                                                                         *)
(* Option<T> is modelled as a sequence of length at most one:              *)
(* None = << >>, Some(x) = << x >>.  A Vec is a sequence.                  *)
(***************************************************************************)
EXTENDS Integers, Sequences, FiniteSets, TLC

VARIABLES world, pre, alt, last, edits, injects, cellops, ticks

vars == <<world, pre, alt, last, edits, injects, cellops, ticks>>

(***************************************************************************)
(* Bounds of the model                                                     *)
(***************************************************************************)
MaxEdits == 1
MaxInjects == 2
MaxCellOps == 1
MaxTicks == 2

(***************************************************************************)
(* Option                                                                  *)
(***************************************************************************)
None == << >>
Some(x) == << x >>
IsSome(o) == Len(o) = 1
IsNone(o) == Len(o) = 0
Unwrap(o) == o[1]

(***************************************************************************)
(* utils.rs: Orientation, Direction, State                                 *)
(***************************************************************************)
Direction == {"Up", "Down", "Left", "Right"}
Orientation == {"Horizontal", "Vertical", "Any"}
State == {"Idle", "Active", "Dormant"}

HORIZONTAL == <<"Left", "Right">>
VERTICAL == <<"Up", "Down">>
ANY == <<"Up", "Down", "Left", "Right">>

into_directions(o) ==
    CASE o = "Horizontal" -> HORIZONTAL
      [] o = "Vertical" -> VERTICAL
      [] o = "Any" -> ANY

contains(o, dir) ==
    \/ o = "Vertical" /\ dir = "Up"
    \/ o = "Vertical" /\ dir = "Down"
    \/ o = "Horizontal" /\ dir = "Left"
    \/ o = "Horizontal" /\ dir = "Right"
    \/ o = "Any"

into_offset(d) ==
    CASE d = "Up" -> <<0, -1>>
      [] d = "Down" -> <<0, 1>>
      [] d = "Left" -> <<-1, 0>>
      [] d = "Right" -> <<1, 0>>

opposite(d) ==
    CASE d = "Up" -> "Down"
      [] d = "Down" -> "Up"
      [] d = "Left" -> "Right"
      [] d = "Right" -> "Left"

\* the rotation of State::next taken backwards
State_next_backwards(s) ==
    CASE s = "Idle" -> "Dormant"
      [] s = "Dormant" -> "Active"
      [] s = "Active" -> "Idle"

State_next(s) ==
    CASE s = "Idle" -> "Active"
      [] s = "Active" -> "Dormant"
      [] s = "Dormant" -> "Idle"

State_accepts_signal(s) == s = "Idle"

(***************************************************************************)
(* signal.rs: Signal                                                       *)
(***************************************************************************)
Signal_empty(position, direction) ==
    [direction |-> direction, position |-> position, stack |-> << >>]

\* moved building a new signal with the direction and an empty stack
moved_emptied(signal, direction) == Signal_empty(signal.position, direction)

clone_move(signal, direction) == [signal EXCEPT !.direction = direction]

moved(signal, direction) == [signal EXCEPT !.direction = direction]

\* set_position leaving the position of the signal as it was
set_position_kept(signal, position) == signal

set_position(signal, position) == [signal EXCEPT !.position = position]

push(signal, value) == [signal EXCEPT !.stack = Append(@, value)]

(***************************************************************************)
(* tiles/wire.rs, tiles/transmit.rs: tile bodies (the AnyTile variants)    *)
(***************************************************************************)
Wire(orientation) == [kind |-> "Wire", orientation |-> orientation]
Diode(direction) == [kind |-> "Diode", direction |-> direction]
Resistor(direction) == [kind |-> "Resistor", direction |-> direction, signal |-> None]
Teleporter(name, x, y) == [kind |-> "Teleporter", coordinates |-> <<name, x, y>>]
Sender(name, x, y, length) ==
    [kind |-> "Sender", coordinates |-> <<name, x, y>>, length |-> length,
     signals |-> << >>]

\* Tile::accepts_signal, dispatched over the variants; the trait default is true
Tile_accepts_signal(tile, direction) ==
    CASE tile.kind = "Wire" -> contains(tile.orientation, direction)
      [] tile.kind = "Diode" -> opposite(direction) # tile.direction
      [] OTHER -> TRUE

(***************************************************************************)
(* tile/full.rs: FullTile                                                  *)
(***************************************************************************)
FullTile_new(cell) ==
    [cell |-> cell, signal |-> None, state |-> "Idle", updated |-> FALSE]

\* #[derive(Clone)]: every field is cloned
FullTile_clone(ft) ==
    [cell |-> ft.cell, signal |-> ft.signal, state |-> ft.state, updated |-> ft.updated]

\* FullTile::accepts_signal without the test of the state
FullTile_accepts_signal_stateless(ft, direction) ==
    IF IsSome(ft.cell)
    THEN Tile_accepts_signal(Unwrap(ft.cell), direction)
    ELSE FALSE

FullTile_accepts_signal(ft, direction) ==
    IF IsSome(ft.cell)
    THEN State_accepts_signal(ft.state) /\ Tile_accepts_signal(Unwrap(ft.cell), direction)
    ELSE FALSE

\* FullTile::set_signal without the test of self.cell
FullTile_set_signal_unguarded(ft, signal) ==
    [tile |-> [ft EXCEPT !.signal = signal], ok |-> TRUE]

\* returns the tile and whether the result is Some(())
FullTile_set_signal(ft, signal) ==
    IF IsSome(ft.cell)
    THEN [tile |-> [ft EXCEPT !.signal = signal], ok |-> TRUE]
    ELSE [tile |-> ft, ok |-> FALSE]

FullTile_take_signal(ft) ==
    [tile |-> [ft EXCEPT !.signal = None], signal |-> ft.signal]

FullTile_set_state(ft, state) ==
    IF IsSome(ft.cell) THEN [ft EXCEPT !.state = state] ELSE ft

FullTile_next_state(ft) == [ft EXCEPT !.state = State_next(ft.state)]

(***************************************************************************)
(* pane.rs: Pane accessors                                                 *)
(***************************************************************************)
Pane_empty(width, height) ==
    [width |-> width, height |-> height,
     tiles |-> [i \in 0..(width * height - 1) |-> FullTile_new(None)],
     position |-> <<0, 0>>,
     signals |-> << >>]

in_bounds(pane, position) ==
    position[1] < pane.width /\ position[2] < pane.height

Index(pane, position) == position[2] * pane.width + position[1]

Pane_get(pane, position) ==
    IF ~in_bounds(pane, position) THEN None
    ELSE Some(pane.tiles[Index(pane, position)])

Pane_put(pane, position, ft) ==
    [pane EXCEPT !.tiles[Index(pane, position)] = ft]

Pane_offset(pane, position, offset) ==
    IF \/ offset[1] < 0 /\ (-offset[1]) > position[1]
       \/ offset[2] < 0 /\ (-offset[2]) > position[2]
    THEN None
    ELSE LET new_pos == <<position[1] + offset[1], position[2] + offset[2]>>
         IN IF new_pos[1] < pane.width /\ new_pos[2] < pane.height
            THEN Some(new_pos) ELSE None

Pane_get_state(pane, position) ==
    LET t == Pane_get(pane, position)
    IN IF IsSome(t) THEN Some(Unwrap(t).state) ELSE None

\* returns the pane and whether the result is Some(())
Pane_set_tile(pane, position, cell) ==
    IF ~in_bounds(pane, position) THEN [pane |-> pane, ok |-> FALSE]
    ELSE [pane |-> Pane_put(pane, position, FullTile_new(cell)), ok |-> TRUE]

\* Pane::set_signal refusing a cell that does not accept the signal
Pane_set_signal_guarded(pane, position, signal0) ==
    LET signal == set_position(signal0, position)
        got == Pane_get(pane, position)
    IN IF IsSome(got) /\ FullTile_accepts_signal(Unwrap(got), signal.direction)
       THEN LET r == FullTile_set_signal(Unwrap(got), Some(signal))
            IN IF ~r.ok THEN [pane |-> pane, ok |-> FALSE]
               ELSE LET tile == FullTile_set_state(r.tile, "Active")
                        p1 == Pane_put(pane, position, tile)
                    IN [pane |-> [p1 EXCEPT !.signals = Append(@, position)],
                        ok |-> TRUE]
       ELSE [pane |-> pane, ok |-> FALSE]

\* Pane::set_signal pushing the position on the roster before it looks at the cell
Pane_set_signal_listing(pane, position, signal0) ==
    LET signal == set_position(signal0, position)
        listed == [pane EXCEPT !.signals = Append(@, position)]
        got == Pane_get(pane, position)
    IN IF IsSome(got)
       THEN LET r == FullTile_set_signal(Unwrap(got), Some(signal))
            IN IF ~r.ok THEN [pane |-> listed, ok |-> FALSE]
               ELSE [pane |-> Pane_put(listed, position,
                                       FullTile_set_state(r.tile, "Active")),
                     ok |-> TRUE]
       ELSE [pane |-> listed, ok |-> FALSE]

Pane_set_signal(pane, position, signal0) ==
    LET signal == set_position(signal0, position)
        got == Pane_get(pane, position)
    IN IF IsSome(got)
       THEN LET r == FullTile_set_signal(Unwrap(got), Some(signal))
            IN IF ~r.ok THEN [pane |-> pane, ok |-> FALSE]
               ELSE LET tile == FullTile_set_state(r.tile, "Active")
                        p1 == Pane_put(pane, position, tile)
                    IN [pane |-> [p1 EXCEPT !.signals = Append(@, position)],
                        ok |-> TRUE]
       ELSE [pane |-> pane, ok |-> FALSE]

(***************************************************************************)
(* context.rs: UpdateCommit (the buffer of deferred effects)               *)
(***************************************************************************)
UpdateCommit_new ==
    [states |-> << >>, signals |-> << >>, updates |-> << >>,
     self_signal |-> None, outbound_signals |-> << >>]

UpdateCommit_send(commit, pos, signal) ==
    [commit EXCEPT !.signals = Append(@, <<pos[1], pos[2], Some(signal)>>)]

UpdateCommit_set_state(commit, pos, state) ==
    [commit EXCEPT !.states = Append(@, <<pos[1], pos[2], state>>)]

UpdateCommit_set_self_signal(commit, signal) ==
    [commit EXCEPT !.self_signal = signal]

UpdateCommit_send_outbound(commit, coordinates, signal) ==
    [commit EXCEPT !.outbound_signals = Append(@, <<coordinates, signal>>)]

\* the first loop of apply skipping the cells that hold no tile
RECURSIVE ApplyUpdates_tiled(_, _, _)
ApplyUpdates_tiled(pane, updates, i) ==
    IF i > Len(updates) THEN pane
    ELSE LET pos == updates[i]
             got == Pane_get(pane, pos)
         IN IF IsSome(got) /\ IsSome(Unwrap(got).cell)
            THEN ApplyUpdates_tiled(
                     Pane_put(pane, pos, [Unwrap(got) EXCEPT !.updated = FALSE]),
                     updates, i + 1)
            ELSE ApplyUpdates_tiled(pane, updates, i + 1)

\* first loop of apply: tile.updated = false for every recorded update
RECURSIVE ApplyUpdates(_, _, _)
ApplyUpdates(pane, updates, i) ==
    IF i > Len(updates) THEN pane
    ELSE LET pos == updates[i]
             got == Pane_get(pane, pos)
         IN IF IsSome(got)
            THEN ApplyUpdates(Pane_put(pane, pos, [Unwrap(got) EXCEPT !.updated = FALSE]),
                              updates, i + 1)
            ELSE ApplyUpdates(pane, updates, i + 1)

\* second loop of apply: tile.set_state(state) for every recorded state
RECURSIVE ApplyStates(_, _, _)
ApplyStates(pane, states, i) ==
    IF i > Len(states) THEN pane
    ELSE LET pos == <<states[i][1], states[i][2]>>
             got == Pane_get(pane, pos)
         IN IF IsSome(got)
            THEN ApplyStates(Pane_put(pane, pos, FullTile_set_state(Unwrap(got), states[i][3])),
                             states, i + 1)
            ELSE ApplyStates(pane, states, i + 1)

\* the third loop of apply without self.signals.push
RECURSIVE ApplySignals_unlisted(_, _, _)
ApplySignals_unlisted(pane, signals, i) ==
    IF i > Len(signals) THEN pane
    ELSE LET pos == <<signals[i][1], signals[i][2]>>
             got == Pane_get(pane, pos)
         IN IF IsSome(got)
            THEN LET t1 == FullTile_set_signal(Unwrap(got), signals[i][3]).tile
                     t2 == FullTile_set_state(t1, "Active")
                 IN ApplySignals_unlisted(Pane_put(pane, pos, t2), signals, i + 1)
            ELSE ApplySignals_unlisted(pane, signals, i + 1)

\* the third loop of apply going through the recorded signals backwards
RECURSIVE ApplySignals_reversed(_, _, _)
ApplySignals_reversed(pane, signals, i) ==
    IF i > Len(signals) THEN pane
    ELSE LET e == signals[Len(signals) - i + 1]
             pos == <<e[1], e[2]>>
             got == Pane_get(pane, pos)
         IN IF IsSome(got)
            THEN LET t1 == FullTile_set_signal(Unwrap(got), e[3]).tile
                     t2 == FullTile_set_state(t1, "Active")
                     p1 == Pane_put(pane, pos, t2)
                 IN ApplySignals_reversed([p1 EXCEPT !.signals = Append(@, pos)],
                                          signals, i + 1)
            ELSE ApplySignals_reversed(pane, signals, i + 1)

\* third loop of apply: set_signal, set_state(Active), push on the roster
RECURSIVE ApplySignals(_, _, _)
ApplySignals(pane, signals, i) ==
    IF i > Len(signals) THEN pane
    ELSE LET pos == <<signals[i][1], signals[i][2]>>
             got == Pane_get(pane, pos)
         IN IF IsSome(got)
            THEN LET t1 == FullTile_set_signal(Unwrap(got), signals[i][3]).tile
                     t2 == FullTile_set_state(t1, "Active")
                     p1 == Pane_put(pane, pos, t2)
                 IN ApplySignals([p1 EXCEPT !.signals = Append(@, pos)], signals, i + 1)
            ELSE ApplySignals(pane, signals, i + 1)

\* apply writing the signals before the recorded states
UpdateCommit_apply_signals_first(commit, pane) ==
    LET p1 == ApplyUpdates(pane, commit.updates, 1)
        p2 == ApplySignals(p1, commit.signals, 1)
        p3 == ApplyStates(p2, commit.states, 1)
    IN [pane |-> p3, outbound_signals |-> commit.outbound_signals]

UpdateCommit_apply(commit, pane) ==
    LET p1 == ApplyUpdates(pane, commit.updates, 1)
        p2 == ApplyStates(p1, commit.states, 1)
        p3 == ApplySignals(p2, commit.signals, 1)
    IN [pane |-> p3, outbound_signals |-> commit.outbound_signals]

\* apply_immediate forgetting the signal that keep() has set aside
UpdateCommit_apply_immediate_dropping(commit, tile) ==
    [commit |-> [commit EXCEPT !.self_signal = None], tile |-> tile]

UpdateCommit_apply_immediate(commit, tile) ==
    IF IsSome(commit.self_signal)
    THEN [commit |-> [commit EXCEPT !.self_signal = None],
          tile |-> FullTile_set_signal(tile, commit.self_signal).tile]
    ELSE [commit |-> commit, tile |-> tile]

(***************************************************************************)
(* context.rs: UpdateContext                                               *)
(* A context is [position, pane, state, signal, commit]; an operation      *)
(* returns the context after the call (and its result where it has one).   *)
(***************************************************************************)
\* UpdateContext::new without the test of tile.updated
UpdateContext_new_unflagged(pane, position, commit) ==
    LET got == Pane_get(pane, position)
    IN IF IsNone(got) THEN [ok |-> FALSE]
       ELSE LET tile == Unwrap(got)
                t1 == [tile EXCEPT !.updated = TRUE]
                c1 == [commit EXCEPT !.updates = Append(@, position)]
                tk == FullTile_take_signal(t1)
                p1 == Pane_put(pane, position, tk.tile)
            IN [ok |-> TRUE,
                ctx |-> [position |-> position, pane |-> p1,
                         state |-> t1.state, signal |-> tk.signal,
                         commit |-> c1],
                tile |-> tk.tile]

\* UpdateContext::new giving the context a clone of the signal and leaving the
\* signal in the cell
UpdateContext_new_leaving(pane, position, commit) ==
    LET got == Pane_get(pane, position)
    IN IF IsNone(got) THEN [ok |-> FALSE]
       ELSE LET tile == Unwrap(got)
            IN IF tile.updated THEN [ok |-> FALSE]
               ELSE LET t1 == [tile EXCEPT !.updated = TRUE]
                        c1 == [commit EXCEPT !.updates = Append(@, position)]
                        p1 == Pane_put(pane, position, t1)
                    IN [ok |-> TRUE,
                        ctx |-> [position |-> position, pane |-> p1,
                                 state |-> t1.state, signal |-> t1.signal,
                                 commit |-> c1],
                        tile |-> t1]

UpdateContext_new(pane, position, commit) ==
    LET got == Pane_get(pane, position)
    IN IF IsNone(got) THEN [ok |-> FALSE]
       ELSE LET tile == Unwrap(got)
            IN IF tile.updated THEN [ok |-> FALSE]
               ELSE LET t1 == [tile EXCEPT !.updated = TRUE]
                        c1 == [commit EXCEPT !.updates = Append(@, position)]
                        tk == FullTile_take_signal(t1)
                        p1 == Pane_put(pane, position, tk.tile)
                    IN [ok |-> TRUE,
                        ctx |-> [position |-> position, pane |-> p1,
                                 state |-> t1.state, signal |-> tk.signal,
                                 commit |-> c1],
                        tile |-> tk.tile]

ctx_take_signal(ctx) ==
    [ctx |-> [ctx EXCEPT !.signal = None], signal |-> ctx.signal]

ctx_set_state(ctx, state) ==
    [ctx EXCEPT !.state = state,
                !.commit = UpdateCommit_set_state(ctx.commit, ctx.position, state)]

ctx_next_state(ctx) ==
    [ctx EXCEPT !.state = State_next(ctx.state),
                !.commit = UpdateCommit_set_state(ctx.commit, ctx.position,
                                                  State_next(ctx.state))]

\* get reading the pane without the test of self.position
ctx_get_unhidden(ctx, pos) == Pane_get(ctx.pane, pos)

ctx_get(ctx, pos) ==
    IF ctx.position = pos THEN None ELSE Pane_get(ctx.pane, pos)

ctx_offset(ctx, offset) == Pane_offset(ctx.pane, ctx.position, offset)

\* in_bounds refusing the last column and the last row of the pane
ctx_in_bounds_inner(ctx, position) ==
    position[1] + 1 < ctx.pane.width /\ position[2] + 1 < ctx.pane.height

ctx_in_bounds(ctx, position) == in_bounds(ctx.pane, position)

ctx_get_offset(ctx, offset) ==
    LET Found(pos, tile) ==
            IF IsNone(tile) THEN None ELSE Some(<<Unwrap(pos), Unwrap(tile)>>)
        At(pos) ==
            IF IsNone(pos) THEN None ELSE Found(pos, ctx_get(ctx, Unwrap(pos)))
    IN At(ctx_offset(ctx, offset))

ctx_accepts_signal(ctx, pos, direction) ==
    LET tile == ctx_get(ctx, pos)
    IN IF IsSome(tile) THEN FullTile_accepts_signal(Unwrap(tile), direction) ELSE FALSE

ctx_accepts_direction(ctx, direction) ==
    LET Check(r) ==
            IF IsNone(r) THEN None
            ELSE IF FullTile_accepts_signal(Unwrap(r)[2], direction)
                 THEN Some(Unwrap(r)[1]) ELSE None
    IN Check(ctx_get_offset(ctx, into_offset(direction)))

\* force_send setting the position of the signal before it tests the bounds
ctx_force_send_stamping(ctx, position, signal) ==
    IF ~ctx_in_bounds(ctx, position)
    THEN [ctx |-> ctx, ok |-> FALSE, err |-> set_position(signal, position)]
    ELSE [ctx |-> [ctx EXCEPT !.commit =
                       UpdateCommit_send(ctx.commit, position,
                                         set_position(signal, position))],
          ok |-> TRUE, err |-> signal]

\* Ok(()) is ok = TRUE; Err(SendError(signal)) is ok = FALSE with err = signal
ctx_force_send(ctx, position, signal) ==
    IF ~ctx_in_bounds(ctx, position)
    THEN [ctx |-> ctx, ok |-> FALSE, err |-> signal]
    ELSE [ctx |-> [ctx EXCEPT !.commit =
                       UpdateCommit_send(ctx.commit, position,
                                         set_position(signal, position))],
          ok |-> TRUE, err |-> signal]

\* send turning the signal before it asks the target, and returning it turned
ctx_send_turning(ctx, position, direction, signal) ==
    IF ctx_accepts_signal(ctx, position, direction)
    THEN ctx_force_send(ctx, position, moved(signal, direction))
    ELSE [ctx |-> ctx, ok |-> FALSE, err |-> moved(signal, direction)]

ctx_send(ctx, position, direction, signal) ==
    IF ctx_accepts_signal(ctx, position, direction)
    THEN LET original_direction == signal.direction
             MapErr(r) ==
                 IF r.ok THEN r
                 ELSE [ctx |-> r.ctx, ok |-> FALSE,
                       err |-> moved(r.err, original_direction)]
         IN MapErr(ctx_force_send(ctx, position, moved(signal, direction)))
    ELSE [ctx |-> ctx, ok |-> FALSE, err |-> signal]

ctx_keep(ctx) ==
    IF IsSome(ctx.signal)
    THEN [ctx EXCEPT !.signal = None,
                     !.commit = UpdateCommit_set_self_signal(ctx.commit, ctx.signal)]
    ELSE ctx

ctx_send_outbound(ctx, coordinates, signal) ==
    [ctx EXCEPT !.commit = UpdateCommit_send_outbound(ctx.commit, coordinates, signal)]

(***************************************************************************)
(* tiles/wire.rs: Wire, Diode, Resistor rules                              *)
(* A rule takes the tile body and the context and returns both.            *)
(***************************************************************************)
\* the loop of Wire::update without the test of signal.direction().opposite():
\* the signal also goes back to where it came from
RECURSIVE WireFanOut_backflow(_, _, _, _)
WireFanOut_backflow(ctx, signal, directions, i) ==
    IF i > Len(directions) THEN ctx
    ELSE LET Send(pos) ==
                 IF IsSome(pos)
                 THEN ctx_force_send(ctx, Unwrap(pos),
                                     clone_move(signal, directions[i])).ctx
                 ELSE ctx
         IN WireFanOut_backflow(Send(ctx_accepts_direction(ctx, directions[i])),
                                signal, directions, i + 1)

\* the loop over self.0.into_directions() in Wire::update
RECURSIVE WireFanOut(_, _, _, _)
WireFanOut(ctx, signal, directions, i) ==
    IF i > Len(directions) THEN ctx
    ELSE LET direction == directions[i]
         IN IF direction = opposite(signal.direction)
            THEN WireFanOut(ctx, signal, directions, i + 1)
            ELSE LET Send(pos) ==
                         IF IsSome(pos)
                         THEN ctx_force_send(ctx, Unwrap(pos),
                                             clone_move(signal, direction)).ctx
                         ELSE ctx
                 IN WireFanOut(Send(ctx_accepts_direction(ctx, direction)),
                               signal, directions, i + 1)

\* Wire::update without the call of next_state that ends it
Wire_update_awake(self, context) ==
    LET tk == ctx_take_signal(context)
    IN [tile |-> self,
        ctx |-> IF IsSome(tk.signal)
                THEN WireFanOut(tk.ctx, Unwrap(tk.signal),
                                into_directions(self.orientation), 1)
                ELSE tk.ctx]

Wire_update(self, context) ==
    LET tk == ctx_take_signal(context)
        Advance(c) == IF c.state # "Idle" THEN ctx_next_state(c) ELSE c
    IN [tile |-> self,
        ctx |-> Advance(IF IsSome(tk.signal)
                        THEN WireFanOut(tk.ctx, Unwrap(tk.signal),
                                        into_directions(self.orientation), 1)
                        ELSE tk.ctx)]

\* Diode::update without the test that blocks the signals coming from where
\* the diode is looking
Diode_update_unblocked(self, context) ==
    LET tk == ctx_take_signal(context)
        Send(pos) ==
            IF IsSome(tk.signal) /\ IsSome(pos)
            THEN ctx_send(tk.ctx, Unwrap(pos), self.direction, Unwrap(tk.signal)).ctx
            ELSE tk.ctx
        Advance(c) == IF c.state # "Idle" THEN ctx_next_state(c) ELSE c
    IN [tile |-> self,
        ctx |-> Advance(Send(ctx_offset(tk.ctx, into_offset(self.direction))))]

\* Diode::update without the final next_state: the Diode never cools down
Diode_update_staying(self, context) ==
    LET tk == ctx_take_signal(context)
        blocked == IsSome(tk.signal) /\ opposite(Unwrap(tk.signal).direction) = self.direction
        Send(pos) ==
            IF IsSome(tk.signal) /\ IsSome(pos)
            THEN ctx_send(tk.ctx, Unwrap(pos), self.direction, Unwrap(tk.signal)).ctx
            ELSE tk.ctx
    IN IF blocked THEN [tile |-> self, ctx |-> tk.ctx]
       ELSE [tile |-> self,
             ctx |-> Send(ctx_offset(tk.ctx, into_offset(self.direction)))]

Diode_update(self, context) ==
    LET tk == ctx_take_signal(context)
        blocked == IsSome(tk.signal) /\ opposite(Unwrap(tk.signal).direction) = self.direction
        Send(pos) ==
            IF IsSome(tk.signal) /\ IsSome(pos)
            THEN ctx_send(tk.ctx, Unwrap(pos), self.direction, Unwrap(tk.signal)).ctx
            ELSE tk.ctx
        Advance(c) == IF c.state # "Idle" THEN ctx_next_state(c) ELSE c
    IN IF blocked THEN [tile |-> self, ctx |-> tk.ctx]
       ELSE [tile |-> self,
             ctx |-> Advance(Send(ctx_offset(tk.ctx, into_offset(self.direction))))]

\* Resistor::update reading self.signal without std::mem::take: the latch keeps
\* the signal it sends
Resistor_update_latching(self, context) ==
    LET stored == self.signal
        Send(pos) ==
            IF IsSome(stored) /\ IsSome(pos)
            THEN ctx_send(context, Unwrap(pos), self.direction, Unwrap(stored)).ctx
            ELSE context
        Store(tk) ==
            IF IsSome(tk.signal)
            THEN [tile |-> [self EXCEPT !.signal = tk.signal],
                  ctx |-> ctx_set_state(tk.ctx, "Active")]
            ELSE [tile |-> self,
                  ctx |-> IF tk.ctx.state # "Idle" THEN ctx_next_state(tk.ctx)
                          ELSE tk.ctx]
    IN Store(ctx_take_signal(Send(ctx_offset(context, into_offset(self.direction)))))

\* Resistor::update sending the signal on in the tick it takes it, without
\* holding it in self.signal
Resistor_update_instant(self, context) ==
    LET Send(tk, pos) ==
            IF IsSome(tk.signal) /\ IsSome(pos)
            THEN ctx_send(tk.ctx, Unwrap(pos), self.direction, Unwrap(tk.signal)).ctx
            ELSE tk.ctx
        Advance(c) == IF c.state # "Idle" THEN ctx_next_state(c) ELSE c
        Run(tk) ==
            [tile |-> self,
             ctx |-> Advance(Send(tk, ctx_offset(tk.ctx, into_offset(self.direction))))]
    IN Run(ctx_take_signal(context))

Resistor_update(self, context) ==
    LET stored == self.signal
        self1 == [self EXCEPT !.signal = None]
        Send(pos) ==
            IF IsSome(stored) /\ IsSome(pos)
            THEN ctx_send(context, Unwrap(pos), self.direction, Unwrap(stored)).ctx
            ELSE context
        Store(tk) ==
            IF IsSome(tk.signal)
            THEN [tile |-> [self1 EXCEPT !.signal = tk.signal],
                  ctx |-> ctx_set_state(tk.ctx, "Active")]
            ELSE [tile |-> self1,
                  ctx |-> IF tk.ctx.state # "Idle" THEN ctx_next_state(tk.ctx)
                          ELSE tk.ctx]
    IN Store(ctx_take_signal(Send(ctx_offset(context, into_offset(self.direction)))))

(***************************************************************************)
(* tiles/transmit.rs: Teleporter, Sender rules                             *)
(***************************************************************************)
\* Teleporter::update sending a clone of the signal and keeping the signal in
\* its own cell
Teleporter_update_keeping(self, context) ==
    LET Advance(c) == IF c.state # "Idle" THEN ctx_next_state(c) ELSE c
        Run(c) ==
            IF IsSome(context.signal)
            THEN ctx_send_outbound(c, self.coordinates, Unwrap(context.signal))
            ELSE c
    IN [tile |-> self, ctx |-> Advance(Run(ctx_keep(context)))]

Teleporter_update(self, context) ==
    LET tk == ctx_take_signal(context)
        Advance(c) == IF c.state # "Idle" THEN ctx_next_state(c) ELSE c
    IN [tile |-> self,
        ctx |-> Advance(IF IsSome(tk.signal)
                        THEN ctx_send_outbound(tk.ctx, self.coordinates,
                                               Unwrap(tk.signal))
                        ELSE tk.ctx)]

\* drain_filter: the entries with time >= length are sent outbound, in order
RECURSIVE SenderDrain(_, _, _, _, _)
SenderDrain(ctx, coordinates, length, signals, i) ==
    IF i > Len(signals) THEN ctx
    ELSE IF signals[i][2] >= length
         THEN SenderDrain(ctx_send_outbound(ctx, coordinates, signals[i][1]),
                          coordinates, length, signals, i + 1)
         ELSE SenderDrain(ctx, coordinates, length, signals, i + 1)

\* Sender::update going from Dormant to Idle whatever the queue holds
Sender_update_dozing(self, context) ==
    LET aged == [i \in 1..Len(self.signals) |->
                    <<self.signals[i][1], self.signals[i][2] + 1>>]
        due == \E i \in 1..Len(aged) : aged[i][2] >= self.length
        tk == ctx_take_signal(context)
        queued == IF IsSome(tk.signal) THEN Append(aged, <<Unwrap(tk.signal), 0>>)
                  ELSE aged
        needs_sending == due \/ (IsSome(tk.signal) /\ self.length = 0)
        Advance(c, kept) ==
            [tile |-> [self EXCEPT !.signals = kept],
             ctx |-> IF c.state # "Idle" THEN ctx_next_state(c) ELSE c]
    IN IF needs_sending
       THEN Advance(SenderDrain(tk.ctx, self.coordinates, self.length, queued, 1),
                    SelectSeq(queued, LAMBDA e : ~(e[2] >= self.length)))
       ELSE Advance(tk.ctx, queued)

\* Sender::update without `*time += 1`: the queued signals do not age
Sender_update_ageless(self, context) ==
    LET aged == self.signals
        due == \E i \in 1..Len(aged) : aged[i][2] >= self.length
        tk == ctx_take_signal(context)
        queued == IF IsSome(tk.signal) THEN Append(aged, <<Unwrap(tk.signal), 0>>)
                  ELSE aged
        needs_sending == due \/ (IsSome(tk.signal) /\ self.length = 0)
        Advance(c, kept) ==
            [tile |-> [self EXCEPT !.signals = kept],
             ctx |-> IF c.state = "Active" THEN ctx_next_state(c)
                     ELSE IF c.state = "Dormant" /\ Len(kept) = 0 THEN ctx_next_state(c)
                     ELSE c]
    IN IF needs_sending
       THEN Advance(SenderDrain(tk.ctx, self.coordinates, self.length, queued, 1),
                    SelectSeq(queued, LAMBDA e : ~(e[2] >= self.length)))
       ELSE Advance(tk.ctx, queued)

Sender_update(self, context) ==
    LET aged == [i \in 1..Len(self.signals) |->
                    <<self.signals[i][1], self.signals[i][2] + 1>>]
        due == \E i \in 1..Len(aged) : aged[i][2] >= self.length
        tk == ctx_take_signal(context)
        queued == IF IsSome(tk.signal) THEN Append(aged, <<Unwrap(tk.signal), 0>>)
                  ELSE aged
        needs_sending == due \/ (IsSome(tk.signal) /\ self.length = 0)
        Advance(c, kept) ==
            [tile |-> [self EXCEPT !.signals = kept],
             ctx |-> IF c.state = "Active" THEN ctx_next_state(c)
                     ELSE IF c.state = "Dormant" /\ Len(kept) = 0 THEN ctx_next_state(c)
                     ELSE c]
    IN IF needs_sending
       THEN Advance(SenderDrain(tk.ctx, self.coordinates, self.length, queued, 1),
                    SelectSeq(queued, LAMBDA e : ~(e[2] >= self.length)))
       ELSE Advance(tk.ctx, queued)

(***************************************************************************)
(* tile/mod.rs: a tile of the user, whose Tile::update makes the context   *)
(* calls listed in `calls`, in order.  The rule holds the signal it took   *)
(* (or got back in a SendError) in a local `held` and passes it to the     *)
(* next send or force_send; a send without a held signal is skipped.  The  *)
(* tile keeps, per call made, its index in `calls`, what it passed, what   *)
(* it got and the commit before and after the call; for a get, `got` is    *)
(* the cell it read, and for an accepts_signal, `ok` is the answer.        *)
(***************************************************************************)
Script(calls) == [kind |-> "Script", calls |-> calls, results |-> << >>]

RECURSIVE RunCalls(_, _, _, _, _)
RunCalls(calls, ctx, held, results, i) ==
    IF i > Len(calls) THEN [ctx |-> ctx, results |-> results]
    ELSE LET call == calls[i]
             Entry(signal, ok, err, after) ==
                 [index |-> i, call |-> call, signal |-> signal, ok |-> ok,
                  err |-> err, got |-> None, before |-> ctx.commit, after |-> after]
             Taken(r) ==
                 RunCalls(calls, r.ctx, r.signal,
                          Append(results, Entry(r.signal, TRUE, None, r.ctx.commit)),
                          i + 1)
             Kept(c) ==
                 RunCalls(calls, c, held,
                          Append(results, Entry(ctx.signal, TRUE, None, c.commit)),
                          i + 1)
             Sent(r) ==
                 RunCalls(calls, r.ctx, IF r.ok THEN None ELSE Some(r.err),
                          Append(results,
                                 Entry(held, r.ok, IF r.ok THEN None ELSE Some(r.err),
                                       r.ctx.commit)),
                          i + 1)
             Read(got, ok) ==
                 RunCalls(calls, ctx, held,
                          Append(results,
                                 [Entry(None, ok, None, ctx.commit) EXCEPT !.got = got]),
                          i + 1)
         IN CASE call.fn = "take_signal" -> Taken(ctx_take_signal(ctx))
              [] call.fn = "keep" -> Kept(ctx_keep(ctx))
              [] call.fn = "force_send" /\ IsSome(held) ->
                    Sent(ctx_force_send(ctx, call.position, Unwrap(held)))
              [] call.fn = "send" /\ IsSome(held) ->
                    Sent(ctx_send(ctx, call.position, call.direction, Unwrap(held)))
              [] call.fn = "get" ->
                    Read(ctx_get(ctx, call.position), IsSome(ctx_get(ctx, call.position)))
              [] call.fn = "accepts_signal" ->
                    Read(None, ctx_accepts_signal(ctx, call.position, call.direction))
              [] OTHER -> RunCalls(calls, ctx, held, results, i + 1)

Script_update(self, context) ==
    LET Finish(r) == [tile |-> [self EXCEPT !.results = r.results], ctx |-> r.ctx]
    IN Finish(RunCalls(self.calls, context, None, << >>, 1))

\* enum_dispatch of Tile::update over AnyTile
AnyTile_update(tile, context) ==
    CASE tile.kind = "Wire" -> Wire_update(tile, context)
      [] tile.kind = "Diode" -> Diode_update(tile, context)
      [] tile.kind = "Resistor" -> Resistor_update(tile, context)
      [] tile.kind = "Teleporter" -> Teleporter_update(tile, context)
      [] tile.kind = "Sender" -> Sender_update(tile, context)
      [] tile.kind = "Script" -> Script_update(tile, context)

(***************************************************************************)
(* pane.rs: Pane::update and Pane::step                                    *)
(* The scheduler state is [pane, commit, log]; log lists, per invocation   *)
(* of Tile::update, the position, what the context captured and the states *)
(* of the pane's cells as the rule could read them.                        *)
(***************************************************************************)
CellStates(pane) == [i \in DOMAIN pane.tiles |-> pane.tiles[i].state]

\* Pane::update applying the recorded states and signals as soon as the rule returns
Pane_update_eager(st, position) ==
    LET Commit(r, im) ==
            [pane |-> ApplySignals(
                          ApplyStates(Pane_put(r.ctx.pane, position, im.tile),
                                      im.commit.states, 1),
                          im.commit.signals, 1),
             commit |-> [im.commit EXCEPT !.states = << >>, !.signals = << >>],
             log |-> Append(st.log,
                            [position |-> position,
                             signal |-> r.ctx.signal,
                             state |-> r.ctx.state,
                             states |-> CellStates(r.ctx.pane)])]
        Ran(r, u) ==
            Commit(r, UpdateCommit_apply_immediate(
                          u.ctx.commit, [r.tile EXCEPT !.cell = Some(u.tile)]))
        Run(r) ==
            IF ~r.ok THEN st
            ELSE IF IsNone(r.tile.cell)
                 THEN [st EXCEPT !.pane = r.ctx.pane, !.commit = r.ctx.commit]
                 ELSE Ran(r, AnyTile_update(Unwrap(r.tile.cell), r.ctx))
    IN Run(UpdateContext_new(st.pane, position, st.commit))

Pane_update(st, position) ==
    LET Commit(r, im) ==
            [pane |-> Pane_put(r.ctx.pane, position, im.tile),
             commit |-> im.commit,
             log |-> Append(st.log,
                            [position |-> position,
                             signal |-> r.ctx.signal,
                             state |-> r.ctx.state,
                             states |-> CellStates(r.ctx.pane)])]
        Ran(r, u) ==
            Commit(r, UpdateCommit_apply_immediate(
                          u.ctx.commit, [r.tile EXCEPT !.cell = Some(u.tile)]))
        Run(r) ==
            IF ~r.ok THEN st
            ELSE IF IsNone(r.tile.cell)
                 THEN [st EXCEPT !.pane = r.ctx.pane, !.commit = r.ctx.commit]
                 ELSE Ran(r, AnyTile_update(Unwrap(r.tile.cell), r.ctx))
    IN Run(UpdateContext_new(st.pane, position, st.commit))

\* for position in std::mem::replace(&mut self.signals, Vec::new())
RECURSIVE UpdateEach(_, _, _)
UpdateEach(st, positions, i) ==
    IF i > Len(positions) THEN st
    ELSE UpdateEach(Pane_update(st, positions[i]), positions, i + 1)

\* the sweep visiting the Active cells only
RECURSIVE Sweep_active(_, _)
Sweep_active(st, i) ==
    IF i >= st.pane.width * st.pane.height THEN st
    ELSE LET pos == <<i % st.pane.width, i \div st.pane.width>>
         IN IF Unwrap(Pane_get_state(st.pane, pos)) = "Active"
            THEN Sweep_active(Pane_update(st, pos), i + 1)
            ELSE Sweep_active(st, i + 1)

\* for y in 0..height { for x in 0..width { if state != Idle { update } } }
RECURSIVE Sweep(_, _)
Sweep(st, i) ==
    IF i >= st.pane.width * st.pane.height THEN st
    ELSE LET pos == <<i % st.pane.width, i \div st.pane.width>>
         IN IF Unwrap(Pane_get_state(st.pane, pos)) # "Idle"
            THEN Sweep(Pane_update(st, pos), i + 1)
            ELSE Sweep(st, i + 1)

Pane_step(pane) ==
    LET st0 == [pane |-> [pane EXCEPT !.signals = << >>],
                commit |-> UpdateCommit_new, log |-> << >>]
        Result(st, res) ==
            [pane |-> res.pane, outbound_signals |-> res.outbound_signals,
             log |-> st.log, sent |-> st.commit.signals]
        Apply(st) == Result(st, UpdateCommit_apply(st.commit, st.pane))
    IN Apply(Sweep(UpdateEach(st0, pane.signals, 1), 0))

\* The rules Pane::step invokes are those of the cells listed in the roster and
\* of the cells that are not Idle.  Pane_step_in runs the same tick with these
\* cells visited in the given order instead of roster order then row-major.
DueCells(pane) ==
    {p \in {<<x, y>> : x \in 0..(pane.width - 1), y \in 0..(pane.height - 1)} :
        \/ \E i \in 1..Len(pane.signals) : pane.signals[i] = p
        \/ pane.tiles[Index(pane, p)].state # "Idle"}

Pane_step_in(pane, order) ==
    LET st0 == [pane |-> [pane EXCEPT !.signals = << >>],
                commit |-> UpdateCommit_new, log |-> << >>]
        Result(st, res) ==
            [pane |-> res.pane, outbound_signals |-> res.outbound_signals,
             log |-> st.log, sent |-> st.commit.signals]
        Apply(st) == Result(st, UpdateCommit_apply(st.commit, st.pane))
    IN Apply(UpdateEach(st0, order, 1))

(***************************************************************************)
(* world.rs: World                                                         *)
(* The panes are a map from names to panes; a HashMap iterates in an       *)
(* arbitrary order, which World_step takes as the sequence `order`.        *)
(***************************************************************************)
get_pane_mut(panes, name) ==
    IF name \in DOMAIN panes THEN Some(panes[name]) ELSE None

\* the second loop of World::step writing the signal into the destination cell
\* itself instead of calling Pane::set_signal
RECURSIVE Route_unchecked(_, _, _)
Route_unchecked(panes, outbound, i) ==
    IF i > Len(outbound) THEN panes
    ELSE LET name == outbound[i][1][1]
             pos == <<outbound[i][1][2], outbound[i][1][3]>>
             pane == get_pane_mut(panes, name)
         IN IF IsSome(pane) /\ in_bounds(Unwrap(pane), pos)
            THEN LET tile == [Unwrap(Pane_get(Unwrap(pane), pos)) EXCEPT
                                 !.signal = Some(set_position(outbound[i][2], pos)),
                                 !.state = "Active"]
                     p1 == Pane_put(Unwrap(pane), pos, tile)
                 IN Route_unchecked(
                        [panes EXCEPT ![name] = [p1 EXCEPT !.signals = Append(@, pos)]],
                        outbound, i + 1)
            ELSE Route_unchecked(panes, outbound, i + 1)

\* second loop of World::step: each outbound signal goes through Pane::set_signal
RECURSIVE Route(_, _, _)
Route(panes, outbound, i) ==
    IF i > Len(outbound) THEN panes
    ELSE LET name == outbound[i][1][1]
             pos == <<outbound[i][1][2], outbound[i][1][3]>>
             pane == get_pane_mut(panes, name)
         IN IF IsSome(pane)
            THEN Route([panes EXCEPT ![name] =
                            Pane_set_signal(Unwrap(pane), pos, outbound[i][2]).pane],
                       outbound, i + 1)
            ELSE Route(panes, outbound, i + 1)

\* the first loop of World::step delivering a pane's outbound signals right after its step
RECURSIVE StepPanes_eager(_, _, _)
StepPanes_eager(acc, order, i) ==
    IF i > Len(order) THEN acc
    ELSE LET name == order[i]
             Collect(res) ==
                 [panes |-> Route([acc.panes EXCEPT ![name] = res.pane],
                                  res.outbound_signals, 1),
                  outbound_signals |-> acc.outbound_signals,
                  logs |-> [acc.logs EXCEPT ![name] = res.log],
                  sent |-> [acc.sent EXCEPT ![name] = res.sent]]
         IN StepPanes_eager(Collect(Pane_step(acc.panes[name])), order, i + 1)

\* first loop of World::step: every pane steps, the outbound signals accumulate
RECURSIVE StepPanes(_, _, _)
StepPanes(acc, order, i) ==
    IF i > Len(order) THEN acc
    ELSE LET name == order[i]
             Collect(res) ==
                 [panes |-> [acc.panes EXCEPT ![name] = res.pane],
                  outbound_signals |-> acc.outbound_signals \o res.outbound_signals,
                  logs |-> [acc.logs EXCEPT ![name] = res.log],
                  sent |-> [acc.sent EXCEPT ![name] = res.sent]]
         IN StepPanes(Collect(Pane_step(acc.panes[name])), order, i + 1)

World_step(panes, order) ==
    LET Deliver(acc) ==
            [panes |-> Route(acc.panes, acc.outbound_signals, 1),
             outbound_signals |-> acc.outbound_signals,
             logs |-> acc.logs,
             sent |-> acc.sent]
    IN Deliver(StepPanes([panes |-> panes, outbound_signals |-> << >>,
                          logs |-> [n \in DOMAIN panes |-> << >>],
                          sent |-> [n \in DOMAIN panes |-> << >>]], order, 1))

(***************************************************************************)
(* The programs and inputs of the model                                    *)
(***************************************************************************)
\* the sequences over S that list every element once
Orders(S) ==
    {f \in [1..Cardinality(S) -> S] : \A i, j \in 1..Cardinality(S) : f[i] = f[j] => i = j}

Positions(pane) == {<<x, y>> : x \in 0..(pane.width - 1), y \in 0..(pane.height - 1)}

\* the in-bounds positions and one position past the right edge
InputPositions(pane) == Positions(pane) \cup {<<pane.width, 0>>}

\* tile bodies Pane::set_tile is called with; << >> is the empty tile ()
Palette ==
    {None, Some(Wire("Any")), Some(Resistor("Left")), Some(Teleporter("main", 1, 0))}

\* signals Pane::set_signal is called with; their position is not the target's
InjectSignals ==
    {[direction |-> "Right", position |-> <<1, 1>>, stack |-> <<1>>],
     [direction |-> "Up", position |-> <<0, 0>>, stack |-> <<2>>],
     [direction |-> "Left", position |-> <<1, 1>>, stack |-> << >>],
     [direction |-> "Down", position |-> <<0, 0>>, stack |-> <<1, 2>>]}

\* main:  Diode(Right)  Wire(Any)      sub:  Teleporter(main, 1, 0)
\*        ()            Diode(Up)
MainPane ==
    LET p0 == Pane_empty(2, 2)
        p1 == Pane_set_tile(p0, <<0, 0>>, Some(Diode("Right"))).pane
        p2 == Pane_set_tile(p1, <<1, 0>>, Some(Wire("Any"))).pane
    IN Pane_set_tile(p2, <<1, 1>>, Some(Diode("Up"))).pane

SubPane ==
    Pane_set_tile(Pane_empty(1, 1), <<0, 0>>, Some(Teleporter("main", 1, 0))).pane

InitWorld == [n \in {"main", "sub"} |-> IF n = "main" THEN MainPane ELSE SubPane]

\* one pane:  Teleporter(main, 1, 0)  ()
SmallWorld ==
    [n \in {"main"} |->
        Pane_set_tile(Pane_empty(2, 1), <<0, 0>>, Some(Teleporter("main", 1, 0))).pane]

NoLogs == [n \in DOMAIN world |-> << >>]

\* the operation that led to the current state, with what it was given and returned
Op(op, name, position, signal, ok) ==
    [op |-> op, pane |-> name, position |-> position, signal |-> signal, ok |-> ok,
     order |-> << >>, logs |-> NoLogs, sent |-> NoLogs, outbound_signals |-> << >>]

StepOp(op, name, order, logs, sent, outbound) ==
    [op |-> op, pane |-> name, position |-> <<0, 0>>, signal |-> None, ok |-> TRUE,
     order |-> order, logs |-> logs, sent |-> sent, outbound_signals |-> outbound]

(***************************************************************************)
(* Specification                                                           *)
(* world is the World; pre is the world before the last operation; last    *)
(* is that operation; alt is the world the last step would have produced   *)
(* had it visited the cells (Pane::step) or the panes (World::step) in     *)
(* another order.                                                          *)
(***************************************************************************)
InitWith(w) ==
    /\ world = w
    /\ pre = w
    /\ alt = w
    /\ last = [op |-> "new", pane |-> "main", position |-> <<0, 0>>, signal |-> None,
               ok |-> TRUE, order |-> << >>, logs |-> [n \in DOMAIN w |-> << >>],
               sent |-> [n \in DOMAIN w |-> << >>], outbound_signals |-> << >>]
    /\ edits = 0
    /\ injects = 0
    /\ cellops = 0
    /\ ticks = 0

Init == InitWith(InitWorld)

\* pane.set_tile(position, tile)
SetTile ==
    /\ edits < MaxEdits
    /\ \E name \in DOMAIN world :
       \E position \in InputPositions(world[name]) :
       \E cell \in Palette :
          LET r == Pane_set_tile(world[name], position, cell)
          IN /\ world' = [world EXCEPT ![name] = r.pane]
             /\ last' = Op("set_tile", name, position, None, r.ok)
    /\ pre' = world
    /\ alt' = world'
    /\ edits' = edits + 1
    /\ UNCHANGED <<injects, cellops, ticks>>

\* pane.set_signal(position, signal)
SetSignal ==
    /\ injects < MaxInjects
    /\ \E name \in DOMAIN world :
       \E position \in InputPositions(world[name]) :
       \E signal \in InjectSignals :
          LET r == Pane_set_signal(world[name], position, signal)
          IN /\ world' = [world EXCEPT ![name] = r.pane]
             /\ last' = Op("set_signal", name, position, Some(signal), r.ok)
    /\ pre' = world
    /\ alt' = world'
    /\ injects' = injects + 1
    /\ UNCHANGED <<edits, cellops, ticks>>

\* pane.step() on one pane; the caller drops the outbound signals
PaneStep ==
    /\ ticks < MaxTicks
    /\ \E name \in DOMAIN world :
          \E r \in {Pane_step(world[name])} :
             /\ world' = [world EXCEPT ![name] = r.pane]
             /\ last' = StepOp("Pane::step", name, << >>,
                               [NoLogs EXCEPT ![name] = r.log],
                               [NoLogs EXCEPT ![name] = r.sent], r.outbound_signals)
             /\ \E order \in Orders(DueCells(world[name])) :
                   alt' = [world EXCEPT ![name] = Pane_step_in(world[name], order).pane]
    /\ pre' = world
    /\ ticks' = ticks + 1
    /\ UNCHANGED <<edits, injects, cellops>>

\* world.step()
WorldStep ==
    /\ ticks < MaxTicks
    /\ \E order \in Orders(DOMAIN world) :
          \E r \in {World_step(world, order)} :
             /\ world' = r.panes
             /\ last' = StepOp("World::step", "main", order, r.logs, r.sent,
                               r.outbound_signals)
    /\ \E other \in Orders(DOMAIN world) : alt' = World_step(world, other).panes
    /\ pre' = world
    /\ ticks' = ticks + 1
    /\ UNCHANGED <<edits, injects, cellops>>

Next == SetTile \/ SetSignal \/ PaneStep \/ WorldStep

Spec == Init /\ [][Next]_vars

(***************************************************************************)
(* Specification of the cell-level operations: the same operations on a    *)
(* one-pane world, and the FullTile methods reached through Pane::get_mut. *)
(***************************************************************************)
InitFullTile == InitWith(SmallWorld)

\* pane.get_mut(position).unwrap().set_signal(signal)
FullTileSetSignal ==
    /\ cellops < MaxCellOps
    /\ \E name \in DOMAIN world :
       \E position \in Positions(world[name]) :
       \E signal \in {None} \cup {Some(sig) : sig \in InjectSignals} :
          LET r == FullTile_set_signal(Unwrap(Pane_get(world[name], position)), signal)
          IN /\ world' = [world EXCEPT ![name] = Pane_put(world[name], position, r.tile)]
             /\ last' = Op("FullTile::set_signal", name, position, signal, r.ok)
    /\ pre' = world
    /\ alt' = world'
    /\ cellops' = cellops + 1
    /\ UNCHANGED <<edits, injects, ticks>>

\* pane.get_mut(position).unwrap().set_state(state)
FullTileSetState ==
    /\ cellops < MaxCellOps
    /\ \E name \in DOMAIN world :
       \E position \in Positions(world[name]) :
       \E state \in State :
          LET t == FullTile_set_state(Unwrap(Pane_get(world[name], position)), state)
          IN /\ world' = [world EXCEPT ![name] = Pane_put(world[name], position, t)]
             /\ last' = Op("FullTile::set_state", name, position, None, TRUE)
    /\ pre' = world
    /\ alt' = world'
    /\ cellops' = cellops + 1
    /\ UNCHANGED <<edits, injects, ticks>>

\* pane.get_mut(position).unwrap().next_state()
FullTileNextState ==
    /\ cellops < MaxCellOps
    /\ \E name \in DOMAIN world :
       \E position \in Positions(world[name]) :
          LET t == FullTile_next_state(Unwrap(Pane_get(world[name], position)))
          IN /\ world' = [world EXCEPT ![name] = Pane_put(world[name], position, t)]
             /\ last' = Op("FullTile::next_state", name, position, None, TRUE)
    /\ pre' = world
    /\ alt' = world'
    /\ cellops' = cellops + 1
    /\ UNCHANGED <<edits, injects, ticks>>

NextFullTile ==
    \/ SetTile \/ SetSignal \/ PaneStep \/ WorldStep
    \/ FullTileSetSignal \/ FullTileSetState \/ FullTileNextState

SpecFullTile == InitFullTile /\ [][NextFullTile]_vars

(***************************************************************************)
(* Properties                                                              *)
(***************************************************************************)
Cell(w, name, position) == w[name].tiles[Index(w[name], position)]

IsStep == last.op \in {"Pane::step", "World::step"}

InRoster(pane, position) == \E i \in 1..Len(pane.signals) : pane.signals[i] = position

\* C1: during one Pane::step each cell's rule is invoked at most once, also when
\* its position is listed several times in the roster or is listed and non-Idle.
SingleUpdate ==
    IsStep =>
        \A n \in DOMAIN world :
        \A i, j \in 1..Len(last.logs[n]) :
            last.logs[n][i].position = last.logs[n][j].position => i = j

\* a step ran the rule of a cell that the roster listed twice and that was not Idle
SingleUpdateWitness ==
    /\ last.op = "Pane::step"
    /\ \E n \in DOMAIN world :
       \E i, j \in 1..Len(pre[n].signals) :
          /\ i < j
          /\ pre[n].signals[i] = pre[n].signals[j]
          /\ Cell(pre, n, pre[n].signals[i]).state # "Idle"
          /\ \E k \in 1..Len(last.logs[n]) :
                last.logs[n][k].position = pre[n].signals[i]

\* C2: Pane::step ends in the same tiles, states and signals whatever the order in
\* which the rules of the due cells are invoked.
OrderAgnostic ==
    last.op = "Pane::step" => alt[last.pane].tiles = world[last.pane].tiles

\* C3: no effect recorded through a context is visible to a rule of the same tick:
\* every rule captures the signal and state its cell had at tick start and reads
\* the cell states of tick start; a signal sent in the tick is in its destination,
\* which is Active and on the roster, once the tick is over.
DeferredEffects ==
    IsStep =>
        \A n \in DOMAIN world :
            /\ \A k \in 1..Len(last.logs[n]) :
                  LET e == last.logs[n][k]
                  IN /\ e.signal = Cell(pre, n, e.position).signal
                     /\ e.state = Cell(pre, n, e.position).state
                     /\ e.states = CellStates(pre[n])
            /\ last.op = "Pane::step" =>
                  \A k \in 1..Len(last.sent[n]) :
                     LET pos == <<last.sent[n][k][1], last.sent[n][k][2]>>
                         later == \E m \in (k + 1)..Len(last.sent[n]) :
                                     <<last.sent[n][m][1], last.sent[n][m][2]>> = pos
                     IN (IsSome(Cell(world, n, pos).cell) /\ ~later) =>
                           /\ Cell(world, n, pos).signal = last.sent[n][k][3]
                           /\ Cell(world, n, pos).state = "Active"
                           /\ InRoster(world[n], pos)

\* a step ran two rules, the first sent a signal to the cell of the second
DeferredEffectsWitness ==
    /\ last.op = "Pane::step"
    /\ \E n \in DOMAIN world :
          /\ Len(last.logs[n]) = 2
          /\ \E k \in 1..Len(last.sent[n]) :
                <<last.sent[n][k][1], last.sent[n][k][2]>> = last.logs[n][2].position

\* C4: two executions of World::step from the same state end in the same state,
\* whatever the order in which the panes are iterated.
DeterministicTick ==
    last.op = "World::step" => \A n \in DOMAIN world : alt[n].tiles = world[n].tiles

\* the outbound signal i of the last World::step has a destination cell that exists
\* and holds a tile
Deliverable(i) ==
    LET c == last.outbound_signals[i][1]
    IN /\ c[1] \in DOMAIN world
       /\ in_bounds(world[c[1]], <<c[2], c[3]>>)
       /\ IsSome(Cell(world, c[1], <<c[2], c[3]>>).cell)

\* C5: an outbound signal emitted during a World::step is installed only after
\* every pane has stepped: no rule of that step processes it (each rule gets the
\* signal its cell held when the step began), and after the step it is in its
\* destination cell, Active and on the roster, for the next step.
OutboundNextTick ==
    last.op = "World::step" =>
        /\ \A n \in DOMAIN world :
           \A k \in 1..Len(last.logs[n]) :
              last.logs[n][k].signal = Cell(pre, n, last.logs[n][k].position).signal
        /\ \A i \in 1..Len(last.outbound_signals) :
              LET c == last.outbound_signals[i][1]
                  pos == <<c[2], c[3]>>
                  later == \E j \in (i + 1)..Len(last.outbound_signals) :
                              last.outbound_signals[j][1] = c
              IN (Deliverable(i) /\ ~later) =>
                    /\ Cell(world, c[1], pos).signal =
                          Some(set_position(last.outbound_signals[i][2], pos))
                    /\ Cell(world, c[1], pos).state = "Active"
                    /\ InRoster(world[c[1]], pos)

\* sub stepped before main and emitted a signal for a cell of main, which holds it
OutboundNextTickWitness ==
    /\ last.op = "World::step"
    /\ last.order = <<"sub", "main">>
    /\ Len(last.logs["sub"]) > 0
    /\ \E i \in 1..Len(last.outbound_signals) :
          /\ Deliverable(i)
          /\ last.outbound_signals[i][1][1] = "main"
          /\ IsSome(Cell(world, "main", <<last.outbound_signals[i][1][2],
                                         last.outbound_signals[i][1][3]>>).signal)

\* C6: after every Pane::step no cell has its updated flag set.
NoUpdatedFlag ==
    \A n \in DOMAIN world : \A i \in DOMAIN world[n].tiles : ~world[n].tiles[i].updated

\* a step visited an empty cell and a position listed twice in the roster
NoUpdatedFlagWitness ==
    /\ last.op = "Pane::step"
    /\ \E n \in DOMAIN world :
          /\ \E i \in 1..Len(pre[n].signals) : IsNone(Cell(pre, n, pre[n].signals[i]).cell)
          /\ \E i, j \in 1..Len(pre[n].signals) :
                i < j /\ pre[n].signals[i] = pre[n].signals[j]

\* C7: every cell that has no tile holds no signal.
NoSignalWithoutTile ==
    \A n \in DOMAIN world : \A i \in DOMAIN world[n].tiles :
        IsNone(world[n].tiles[i].cell) => IsNone(world[n].tiles[i].signal)

\* FullTile::set_signal(Some(signal)) was called on a cell without a tile
NoSignalWithoutTileWitness ==
    /\ last.op = "FullTile::set_signal"
    /\ IsSome(last.signal)
    /\ IsNone(Cell(pre, last.pane, last.position).cell)

\* C8: FullTile::accepts_signal(d) is true exactly when the cell has a tile, is
\* Idle and the tile's accepts_signal(d) is true.
AcceptsSignalIff ==
    \A n \in DOMAIN world : \A i \in DOMAIN world[n].tiles : \A d \in Direction :
        LET ft == world[n].tiles[i]
        IN /\ FullTile_accepts_signal(ft, d) <=>
                (/\ IsSome(ft.cell)
                 /\ ft.state = "Idle"
                 /\ Tile_accepts_signal(Unwrap(ft.cell), d))
           /\ (IsNone(ft.cell) \/ ft.state \in {"Active", "Dormant"}) =>
                 ~FullTile_accepts_signal(ft, d)

\* a cell holds a tile that accepts every direction and is Dormant
AcceptsSignalIffWitness ==
    \E n \in DOMAIN world : \E i \in DOMAIN world[n].tiles :
        /\ IsSome(world[n].tiles[i].cell)
        /\ world[n].tiles[i].state = "Dormant"
        /\ \A d \in Direction : Tile_accepts_signal(Unwrap(world[n].tiles[i].cell), d)

\* C9: every cell that has no tile is in state Idle.
EmptyCellIdle ==
    \A n \in DOMAIN world : \A i \in DOMAIN world[n].tiles :
        IsNone(world[n].tiles[i].cell) => world[n].tiles[i].state = "Idle"

\* C10: Pane::set_signal(p, s) on an in-bounds cell with a tile succeeds whatever
\* the cell's state and the tile's accepts_signal; the cell then holds s with
\* position p, is Active, and p is the last entry of the roster.
SetSignalInstalls ==
    (/\ last.op = "set_signal"
     /\ in_bounds(pre[last.pane], last.position)
     /\ IsSome(Cell(pre, last.pane, last.position).cell)) =>
        /\ last.ok
        /\ Cell(world, last.pane, last.position).signal =
              Some([Unwrap(last.signal) EXCEPT !.position = last.position])
        /\ Cell(world, last.pane, last.position).state = "Active"
        /\ Len(world[last.pane].signals) = Len(pre[last.pane].signals) + 1
        /\ world[last.pane].signals[Len(world[last.pane].signals)] = last.position

\* set_signal on a Dormant cell whose tile rejects the signal's direction
SetSignalInstallsWitness ==
    /\ last.op = "set_signal"
    /\ in_bounds(pre[last.pane], last.position)
    /\ IsSome(Cell(pre, last.pane, last.position).cell)
    /\ Cell(pre, last.pane, last.position).state = "Dormant"
    /\ ~Tile_accepts_signal(Unwrap(Cell(pre, last.pane, last.position).cell),
                            Unwrap(last.signal).direction)

\* C11: Pane::set_signal(p, s) returns None when p is out of bounds or the cell at
\* p is empty, and then the pane is unchanged: no signal, no state, no roster entry.
SetSignalRejects ==
    (/\ last.op = "set_signal"
     /\ \/ ~in_bounds(pre[last.pane], last.position)
        \/ IsNone(Cell(pre, last.pane, last.position).cell)) =>
        /\ ~last.ok
        /\ world = pre

\* set_signal on an in-bounds empty cell of a pane whose roster is not empty
SetSignalRejectsWitness ==
    /\ last.op = "set_signal"
    /\ in_bounds(pre[last.pane], last.position)
    /\ IsNone(Cell(pre, last.pane, last.position).cell)
    /\ Len(pre[last.pane].signals) > 0

\* the panes the last step has stepped
Stepped(n) == last.op = "World::step" \/ (last.op = "Pane::step" /\ n = last.pane)

\* the number of invocations of the rule of the cell at p of pane n in the last step
Invocations(n, p) ==
    Cardinality({k \in 1..Len(last.logs[n]) : last.logs[n][k].position = p})

\* C12: in Pane::step every non-empty cell that is listed in the roster or is not
\* Idle at tick start has its rule invoked exactly once, and a cell that is Idle
\* and not listed is not invoked.
ExactlyDueInvoked ==
    \A n \in DOMAIN world :
        Stepped(n) =>
            \A p \in Positions(pre[n]) :
                /\ (p \in DueCells(pre[n]) /\ IsSome(Cell(pre, n, p).cell)) =>
                       Invocations(n, p) = 1
                /\ p \notin DueCells(pre[n]) => Invocations(n, p) = 0

\* a step invoked a listed cell and a Dormant cell that was not listed, and left
\* an Idle cell with a tile alone
ExactlyDueInvokedWitness ==
    /\ last.op = "Pane::step"
    /\ \E p, q, r \in Positions(pre[last.pane]) :
          /\ InRoster(pre[last.pane], p) /\ Invocations(last.pane, p) = 1
          /\ ~InRoster(pre[last.pane], q)
          /\ Cell(pre, last.pane, q).state = "Dormant"
          /\ Invocations(last.pane, q) = 1
          /\ IsSome(Cell(pre, last.pane, r).cell)
          /\ Cell(pre, last.pane, r).state = "Idle"
          /\ ~InRoster(pre[last.pane], r)
          /\ Invocations(last.pane, r) = 0

\* C14: UpdateContext::new(pane, p, commit) returns None when p is out of bounds,
\* when the cell at p is empty, or when the cell at p was already updated.
UpdateContextNewRejects ==
    \A n \in DOMAIN world : \A p \in InputPositions(world[n]) :
        (\/ ~in_bounds(world[n], p)
         \/ IsNone(Cell(world, n, p).cell)
         \/ Cell(world, n, p).updated) =>
            ~UpdateContext_new(world[n], p, UpdateCommit_new).ok

(***************************************************************************)
(* Specification of the transmission between panes: a world of Diode,      *)
(* Resistor, Teleporter and Sender tiles whose transmitters aim at a cell  *)
(* with a tile, at an empty cell, out of the bounds of a pane and at a     *)
(* pane that does not exist.                                               *)
(***************************************************************************)
\* main:  Diode(Right)         Resistor(Down)          sub:  Teleporter(main, 2, 0)
\*        Sender(sub, 0, 0, 1)  Teleporter(sub, 0, 1)         ()
\*                                                           Teleporter(void, 0, 0)
TransmitMain ==
    LET p0 == Pane_empty(2, 2)
        p1 == Pane_set_tile(p0, <<0, 0>>, Some(Diode("Right"))).pane
        p2 == Pane_set_tile(p1, <<1, 0>>, Some(Resistor("Down"))).pane
        p3 == Pane_set_tile(p2, <<0, 1>>, Some(Sender("sub", 0, 0, 1))).pane
    IN Pane_set_tile(p3, <<1, 1>>, Some(Teleporter("sub", 0, 1))).pane

TransmitSub ==
    LET p0 == Pane_empty(1, 3)
        p1 == Pane_set_tile(p0, <<0, 0>>, Some(Teleporter("main", 2, 0))).pane
    IN Pane_set_tile(p1, <<0, 2>>, Some(Teleporter("void", 0, 0))).pane

TransmitWorld == [n \in {"main", "sub"} |-> IF n = "main" THEN TransmitMain ELSE TransmitSub]

InitTransmit == InitWith(TransmitWorld)

NextTransmit == SetSignal \/ PaneStep \/ WorldStep

SpecTransmit == InitTransmit /\ [][NextTransmit]_vars

\* the tiles of the world w are Diode, Resistor, Teleporter and Sender only
NoCloningTile(w) ==
    \A n \in DOMAIN w : \A i \in DOMAIN w[n].tiles :
        IsSome(w[n].tiles[i].cell) =>
            Unwrap(w[n].tiles[i].cell).kind \in {"Diode", "Resistor", "Teleporter", "Sender"}

\* the signals of the world w: those in the signal slots of the cells, in the
\* latches of the Resistors and in the queues of the Senders
SignalCount(w) ==
    LET Cells == UNION {{<<n, i>> : i \in DOMAIN w[n].tiles} : n \in DOMAIN w}
        FT(c) == w[c[1]].tiles[c[2]]
        Kind(c, k) == IsSome(FT(c).cell) /\ Unwrap(FT(c).cell).kind = k
        Queued(c) ==
            IF Kind(c, "Sender")
            THEN {<<c, k>> : k \in 1..Len(Unwrap(FT(c).cell).signals)}
            ELSE {}
    IN Cardinality({c \in Cells : IsSome(FT(c).signal)})
       + Cardinality({c \in Cells :
                         Kind(c, "Resistor") /\ IsSome(Unwrap(FT(c).cell).signal)})
       + Cardinality(UNION {Queued(c) : c \in Cells})

\* C13: in a world of Diode, Resistor, Teleporter and Sender tiles the number of
\* signals (cell slots, Resistor latches, Sender queues) never increases across
\* World::step.
SignalsNotDuplicated ==
    (last.op = "World::step" /\ NoCloningTile(pre)) =>
        SignalCount(world) <= SignalCount(pre)

\* a World::step kept two signals, one of them sent by the Resistor from its latch
\* or by the Sender from its queue
SignalsNotDuplicatedWitness ==
    /\ last.op = "World::step"
    /\ NoCloningTile(pre)
    /\ SignalCount(pre) = 2
    /\ SignalCount(world) = 2
    /\ \/ \E k \in 1..Len(last.sent["main"]) :
             last.sent["main"][k][1] = 1 /\ last.sent["main"][k][2] = 1
       \/ \E i \in 1..Len(last.outbound_signals) :
             last.outbound_signals[i][1] = <<"sub", 0, 0>>

\* the outbound signal o has no destination among the panes: the pane does not
\* exist, the coordinates are out of its bounds, or the cell there is empty
Undeliverable(panes, o) ==
    \/ o[1][1] \notin DOMAIN panes
    \/ ~in_bounds(panes[o[1][1]], <<o[1][2], o[1][3]>>)
    \/ IsNone(panes[o[1][1]].tiles[Index(panes[o[1][1]], <<o[1][2], o[1][3]>>)].cell)

\* the world before the last World::step with every pane stepped, in the order of
\* that step, and no outbound signal delivered yet
SteppedOnly ==
    StepPanes([panes |-> pre, outbound_signals |-> << >>,
               logs |-> NoLogs, sent |-> NoLogs], last.order, 1)

\* C20: World::step discards an outbound signal whose destination pane does not
\* exist, whose coordinates are out of bounds or whose destination cell is empty:
\* the world after the step is the world in which only the other outbound signals
\* were delivered, and the stepped world itself when none can be delivered.
OutboundDiscarded ==
    last.op = "World::step" =>
        \E acc \in {SteppedOnly} :
            /\ last.outbound_signals = acc.outbound_signals
            /\ world = Route(acc.panes,
                             SelectSeq(acc.outbound_signals,
                                       LAMBDA o : ~Undeliverable(acc.panes, o)), 1)
            /\ (\A i \in 1..Len(acc.outbound_signals) :
                    Undeliverable(acc.panes, acc.outbound_signals[i])) =>
                   world = acc.panes

\* a World::step emitted a signal for the pane that does not exist and a signal
\* for a cell that holds a tile
OutboundDiscardedWitness ==
    /\ last.op = "World::step"
    /\ \E i, j \in 1..Len(last.outbound_signals) :
          /\ last.outbound_signals[i][1][1] \notin DOMAIN world
          /\ ~Undeliverable(world, last.outbound_signals[j])

(***************************************************************************)
(* Specification of the context calls: one pane whose cell (0, 0) holds a  *)
(* tile of the user making any sequence of at most MaxCalls context calls. *)
(***************************************************************************)
MaxCalls == 2

\* main:  Script(calls)  Diode(Left)
\*        ()             Diode(Up)
RulePane(calls) ==
    LET p0 == Pane_empty(2, 2)
        p1 == Pane_set_tile(p0, <<0, 0>>, Some(Script(calls))).pane
        p2 == Pane_set_tile(p1, <<1, 0>>, Some(Diode("Left"))).pane
    IN Pane_set_tile(p2, <<1, 1>>, Some(Diode("Up"))).pane

ScriptPosition == <<0, 0>>

Call(fn, position, direction) == [fn |-> fn, position |-> position, direction |-> direction]

\* the calls a rule can make: the sends aim at every cell of the pane and at one
\* position out of its bounds
Calls ==
    {Call("take_signal", ScriptPosition, "Up"), Call("keep", ScriptPosition, "Up")}
    \cup {Call("force_send", p, "Up") : p \in InputPositions(Pane_empty(2, 2))}
    \cup {Call("send", p, d) : p \in InputPositions(Pane_empty(2, 2)),
                               d \in {"Right", "Down"}}

Scripts == UNION {[1..k -> Calls] : k \in 1..MaxCalls}

InitRule == \E calls \in Scripts : InitWith([n \in {"main"} |-> RulePane(calls)])

NextRule == SetSignal \/ PaneStep

SpecRule == InitRule /\ [][NextRule]_vars

\* the last operation is a Pane::step that has invoked the rule of the Script
RuleRan == last.op = "Pane::step" /\ Invocations("main", ScriptPosition) = 1

\* what the Script has kept of the calls of its last update
Results == Unwrap(Cell(world, "main", ScriptPosition).cell).results

\* the number of signals the rules of the last step have sent to the cell at p
Writes(p) ==
    Cardinality({k \in 1..Len(last.sent["main"]) :
                    <<last.sent["main"][k][1], last.sent["main"][k][2]>> = p})

\* C15: force_send(p, sig) with p in bounds succeeds and, after the commit, the
\* cell at p holds sig with position p and is Active, whatever the state or the
\* content of that cell (no other signal being sent to p in the tick).
ForceSendInstalls ==
    RuleRan =>
        \A i \in 1..Len(Results) :
            LET r == Results[i]
                p == r.call.position
            IN (r.call.fn = "force_send" /\ in_bounds(pre["main"], p)) =>
                  /\ r.ok
                  /\ Writes(p) = 1 =>
                        /\ Cell(world, "main", p).signal =
                              Some(set_position(Unwrap(r.signal), p))
                        /\ Cell(world, "main", p).state = "Active"

\* C16: force_send(p, sig) with p out of bounds returns an error carrying sig
\* unchanged and records nothing in the commit; the pane after the tick is the one
\* the tick yields when the rule does not make the call.
ForceSendOutOfBounds ==
    RuleRan =>
        \A i \in 1..Len(Results) :
            LET r == Results[i]
                body == Unwrap(Cell(pre, "main", ScriptPosition).cell)
                Omit(calls) ==
                    SubSeq(calls, 1, r.index - 1) \o SubSeq(calls, r.index + 1, Len(calls))
                Blank(pane) ==
                    Pane_put(pane, ScriptPosition,
                             [Unwrap(Pane_get(pane, ScriptPosition)) EXCEPT
                                 !.cell = Some(Script(<< >>))])
                Skipping ==
                    Pane_put(pre["main"], ScriptPosition,
                             [Cell(pre, "main", ScriptPosition) EXCEPT
                                 !.cell = Some([body EXCEPT !.calls = Omit(@)])])
            IN (r.call.fn = "force_send" /\ ~in_bounds(pre["main"], r.call.position)) =>
                  /\ ~r.ok
                  /\ r.err = r.signal
                  /\ r.after = r.before
                  /\ Blank(world["main"]) = Blank(Pane_step(Skipping).pane)

\* the rule took its signal and called force_send with a position out of bounds
ForceSendOutOfBoundsWitness ==
    /\ RuleRan
    /\ \E i \in 1..Len(Results) :
          /\ Results[i].call.fn = "force_send"
          /\ ~in_bounds(pre["main"], Results[i].call.position)
          /\ IsSome(Results[i].signal)
          /\ Unwrap(Results[i].signal).stack # << >>

\* C17: send(p, d, sig) is force_send(p, sig.moved(d)) when the cell at p accepts a
\* signal from d: it records that signal for p, which then holds it with direction
\* d and position p and is Active (no other signal being sent to p in the tick).
\* When p is out of bounds or the cell at p is empty or does not accept, send
\* returns an error carrying sig as it was given and records nothing.
SendGuarded ==
    RuleRan =>
        \A i \in 1..Len(Results) :
            LET r == Results[i]
                p == r.call.position
                d == r.call.direction
                sig == Unwrap(r.signal)
                arrived == [direction |-> d, position |-> p, stack |-> sig.stack]
            IN r.call.fn = "send" =>
                  IF /\ in_bounds(pre["main"], p)
                     /\ FullTile_accepts_signal(Cell(pre, "main", p), d)
                  THEN /\ r.ok
                       /\ r.after = UpdateCommit_send(r.before, p, arrived)
                       /\ Writes(p) = 1 =>
                             /\ Cell(world, "main", p).signal = Some(arrived)
                             /\ Cell(world, "main", p).state = "Active"
                  ELSE /\ ~r.ok
                       /\ r.err = Some(sig)
                       /\ r.after = r.before

\* the rule sent its signal to a cell that accepted it in a new direction, and
\* the rule of another tick sent it to a cell that did not accept it
SendGuardedWitness ==
    /\ RuleRan
    /\ \E i \in 1..Len(Results) :
          /\ Results[i].call.fn = "send"
          /\ Results[i].call.direction # Unwrap(Results[i].signal).direction
          /\ \/ Results[i].ok /\ Writes(Results[i].call.position) = 1
             \/ /\ ~Results[i].ok
                /\ in_bounds(pre["main"], Results[i].call.position)
                /\ IsSome(Cell(pre, "main", Results[i].call.position).cell)
                /\ Cell(pre, "main", Results[i].call.position).state = "Idle"

\* the pane once the rule of the Script has returned, no other rule having run
AfterRule ==
    Pane_update([pane |-> [pre["main"] EXCEPT !.signals = << >>],
                 commit |-> UpdateCommit_new, log |-> << >>], ScriptPosition).pane

\* C18: keep() called while the context holds the captured signal leaves that
\* signal, unchanged, in the cell once the rule has returned, and the cell still
\* holds it after the tick unless a signal was sent to the cell in the tick;
\* keep() after take_signal() or after keep() does nothing.
KeepRestores ==
    RuleRan =>
        \A i \in 1..Len(Results) :
            LET r == Results[i]
            IN r.call.fn = "keep" =>
                  IF IsSome(r.signal)
                  THEN /\ r.signal = Cell(pre, "main", ScriptPosition).signal
                       /\ AfterRule.tiles[Index(AfterRule, ScriptPosition)].signal = r.signal
                       /\ Writes(ScriptPosition) = 0 =>
                             Cell(world, "main", ScriptPosition).signal = r.signal
                  ELSE r.after = r.before

\* the rule called keep() twice while its cell held a signal with a stack
KeepRestoresWitness ==
    /\ RuleRan
    /\ Len(Results) = 2
    /\ Results[1].call.fn = "keep" /\ Results[2].call.fn = "keep"
    /\ IsSome(Results[1].signal)
    /\ Unwrap(Results[1].signal).stack # << >>
    /\ Cell(world, "main", ScriptPosition).signal = Results[1].signal

\* C19: a rule that takes its signal and sends it to the position of its own cell
\* keeps the signal in place: the send succeeds and the cell holds the signal
\* after the commit.
SendToSelfKeeps ==
    RuleRan =>
        \A i \in 1..Len(Results) :
            LET r == Results[i]
            IN (r.call.fn = "send" /\ r.call.position = ScriptPosition) =>
                  /\ r.ok
                  /\ IsSome(Cell(world, "main", ScriptPosition).signal)

(***************************************************************************)
(* Specification of the tiles of tiles/wire.rs and of the Sender: one pane *)
(* among the layouts of the tests, signals set with Pane::set_signal, and  *)
(* runs of up to MaxLongTicks calls of Pane::step.                         *)
(***************************************************************************)
MaxLongTicks == 5

\* test_tile_setup!(width, height, [cells]): the cells are given row-major
RECURSIVE SetTiles(_, _, _)
SetTiles(pane, cells, i) ==
    IF i > Len(cells) THEN pane
    ELSE SetTiles(Pane_put(pane, <<(i - 1) % pane.width, (i - 1) \div pane.width>>,
                           FullTile_new(cells[i])),
                  cells, i + 1)

test_tile_setup(width, height, cells) == SetTiles(Pane_empty(width, height), cells, 1)

\* Wire(H)  Wire(Any)  Wire(H)
\* ()       Wire(V)    ()
WirePane ==
    test_tile_setup(3, 2, <<Some(Wire("Horizontal")), Some(Wire("Any")),
                            Some(Wire("Horizontal")),
                            None, Some(Wire("Vertical")), None>>)

\* Diode(Right)  Diode(Down)
\* Diode(Up)     Diode(Left)
RingPane ==
    test_tile_setup(2, 2, <<Some(Diode("Right")), Some(Diode("Down")),
                            Some(Diode("Up")), Some(Diode("Left"))>>)

\* Diode(Right)  Resistor(Right)  Resistor(Right)  Diode(Right)
ChainPane ==
    test_tile_setup(4, 1, <<Some(Diode("Right")), Some(Resistor("Right")),
                            Some(Resistor("Right")), Some(Diode("Right"))>>)

\* Sender of length 0  Sender of length 1  Sender of length 2, each with its target
QueuePane ==
    test_tile_setup(3, 1, <<Some(Sender("out", 0, 0, 0)), Some(Sender("out", 1, 0, 1)),
                            Some(Sender("out", 2, 0, 2))>>)

TilePanes == {WirePane, RingPane, ChainPane, QueuePane}

InitTiles == \E pane \in TilePanes : InitWith([n \in {"main"} |-> pane])

\* pane.step(), in a run of up to MaxLongTicks ticks; the caller drops the
\* outbound signals
LongStep ==
    /\ ticks < MaxLongTicks
    /\ \E name \in DOMAIN world :
          \E r \in {Pane_step(world[name])} :
             /\ world' = [world EXCEPT ![name] = r.pane]
             /\ last' = StepOp("Pane::step", name, << >>,
                               [NoLogs EXCEPT ![name] = r.log],
                               [NoLogs EXCEPT ![name] = r.sent], r.outbound_signals)
    /\ alt' = world'
    /\ pre' = world
    /\ ticks' = ticks + 1
    /\ UNCHANGED <<edits, injects, cellops>>

NextTiles == SetSignal \/ LongStep

SpecTiles == InitTiles /\ [][NextTiles]_vars

\* the rule of the cell at p of pane n run alone on the pane as it was before
\* the last step: its commit holds what this rule, and no other, records
RuleAlone(n, p) ==
    Pane_update([pane |-> [pre[n] EXCEPT !.signals = << >>],
                 commit |-> UpdateCommit_new, log |-> << >>], p)

\* the signals a commit sends to the cell at q
SentIn(commit, q) ==
    {Unwrap(commit.signals[k][3]) : k \in {j \in 1..Len(commit.signals) :
                                      <<commit.signals[j][1], commit.signals[j][2]>> = q}}

\* the number of signals the rules of the last step of pane n have sent to q
SentTo(n, q) ==
    Cardinality({k \in 1..Len(last.sent[n]) :
                    <<last.sent[n][k][1], last.sent[n][k][2]>> = q})

\* the cell at p of pane n held a tile of the kind and a signal before the last
\* step, and the step has invoked its rule
Carried(n, p, kind) ==
    /\ last.op = "Pane::step" /\ last.pane = n
    /\ IsSome(Cell(pre, n, p).cell)
    /\ Unwrap(Cell(pre, n, p).cell).kind = kind
    /\ IsSome(Cell(pre, n, p).signal)
    /\ Invocations(n, p) = 1

\* the directions of an orientation
Along(orientation) ==
    CASE orientation = "Horizontal" -> {"Left", "Right"}
      [] orientation = "Vertical" -> {"Up", "Down"}
      [] orientation = "Any" -> {"Up", "Down", "Left", "Right"}

\* the direction that points back from where a signal travelling in d came
Back(d) ==
    CASE d = "Up" -> "Down" [] d = "Down" -> "Up"
      [] d = "Left" -> "Right" [] d = "Right" -> "Left"

\* the neighbour in direction d of the cell at p of pane n exists and accepted
\* a signal travelling in d before the last step
Open(n, p, d) ==
    /\ IsSome(Pane_offset(pre[n], p, into_offset(d)))
    /\ FullTile_accepts_signal(
           Cell(pre, n, Unwrap(Pane_offset(pre[n], p, into_offset(d)))), d)

\* C21: a Wire that holds a signal at tick start ends the tick without it, and
\* sends a clone of the signal with direction d to the neighbour in direction d
\* for exactly the directions d of its orientation that are not the opposite of
\* the direction of the signal and whose neighbour exists and accepts d; that
\* neighbour then holds the clone and is Active.
WireFansOut ==
    \A n \in DOMAIN world : \A p \in Positions(pre[n]) :
        Carried(n, p, "Wire") =>
            LET s == Unwrap(Cell(pre, n, p).signal)
                wire == Unwrap(Cell(pre, n, p).cell)
            IN /\ SentTo(n, p) = 0 => IsNone(Cell(world, n, p).signal)
               /\ \A d \in Direction :
                     LET q == Pane_offset(pre[n], p, into_offset(d))
                         clone == [direction |-> d, position |-> Unwrap(q),
                                   stack |-> s.stack]
                     IN IF d \in Along(wire.orientation) /\ d # Back(s.direction)
                           /\ Open(n, p, d)
                        THEN /\ SentIn(RuleAlone(n, p).commit, Unwrap(q)) = {clone}
                             /\ SentTo(n, Unwrap(q)) = 1 =>
                                   /\ Cell(world, n, Unwrap(q)).signal = Some(clone)
                                   /\ Cell(world, n, Unwrap(q)).state = "Active"
                        ELSE IsSome(q) => SentIn(RuleAlone(n, p).commit, Unwrap(q)) = {}

\* the junction Wire(Any) at (1,0) sent its signal, which travelled Right, on to
\* (2,0) and down to (1,1) and not back to (0,0)
WireFansOutWitness ==
    /\ Carried("main", <<1, 0>>, "Wire")
    /\ Unwrap(Cell(pre, "main", <<1, 0>>).signal).direction = "Right"
    /\ IsSome(Cell(world, "main", <<2, 0>>).signal)
    /\ Unwrap(Cell(world, "main", <<2, 0>>).signal).direction = "Right"
    /\ IsSome(Cell(world, "main", <<1, 1>>).signal)
    /\ Unwrap(Cell(world, "main", <<1, 1>>).signal).direction = "Down"
    /\ IsNone(Cell(world, "main", <<0, 0>>).signal)
    /\ IsNone(Cell(world, "main", <<1, 0>>).signal)

\* C22: a Diode with direction d0 accepts a signal travelling in direction d
\* exactly when the opposite of d is not d0.  Updated while it holds a signal
\* whose direction's opposite is not d0, it sends that one signal, with
\* direction d0, to the neighbour in direction d0 if that neighbour accepts it,
\* and to no other cell; a signal whose direction's opposite is d0 is sent
\* nowhere.  The Diode's own cell ends the tick without the signal.
DiodeForwards ==
    \A n \in DOMAIN world : \A p \in Positions(pre[n]) :
        /\ (IsSome(Cell(world, n, p).cell) /\ Unwrap(Cell(world, n, p).cell).kind = "Diode") =>
              \A d \in Direction :
                  Tile_accepts_signal(Unwrap(Cell(world, n, p).cell), d)
                      <=> Back(d) # Unwrap(Cell(world, n, p).cell).direction
        /\ Carried(n, p, "Diode") =>
              LET s == Unwrap(Cell(pre, n, p).signal)
                  d0 == Unwrap(Cell(pre, n, p).cell).direction
                  q == Pane_offset(pre[n], p, into_offset(d0))
                  forwarded == [direction |-> d0, position |-> Unwrap(q),
                                stack |-> s.stack]
                  alone == RuleAlone(n, p).commit
              IN /\ SentTo(n, p) = 0 => IsNone(Cell(world, n, p).signal)
                 /\ alone.outbound_signals = << >>
                 /\ IF Back(s.direction) # d0 /\ Open(n, p, d0)
                    THEN /\ alone.signals =
                               <<<<Unwrap(q)[1], Unwrap(q)[2], Some(forwarded)>>>>
                         /\ SentTo(n, Unwrap(q)) = 1 =>
                               /\ Cell(world, n, Unwrap(q)).signal = Some(forwarded)
                               /\ Cell(world, n, Unwrap(q)).state = "Active"
                    ELSE alone.signals = << >>

\* in one step of the ring, the Diode(Right) at (0,0) stopped a signal that
\* travelled Left and the Diode(Left) at (1,1) forwarded a signal that
\* travelled Up, turned Left, to (0,1)
DiodeForwardsWitness ==
    /\ world["main"].width = 2
    /\ Carried("main", <<0, 0>>, "Diode")
    /\ Unwrap(Cell(pre, "main", <<0, 0>>).cell).direction = "Right"
    /\ Unwrap(Cell(pre, "main", <<0, 0>>).signal).direction = "Left"
    /\ IsNone(Cell(world, "main", <<1, 0>>).signal)
    /\ Carried("main", <<1, 1>>, "Diode")
    /\ Unwrap(Cell(pre, "main", <<1, 1>>).cell).direction = "Left"
    /\ Unwrap(Cell(pre, "main", <<1, 1>>).signal).direction = "Up"
    /\ IsSome(Cell(world, "main", <<0, 1>>).signal)
    /\ Unwrap(Cell(world, "main", <<0, 1>>).signal).direction = "Left"
    /\ IsNone(Cell(world, "main", <<1, 1>>).signal)

\* the pane is a ring: every cell holds a Diode that points at another cell
IsRing(pane) ==
    \A p \in Positions(pane) :
        /\ IsSome(pane.tiles[Index(pane, p)].cell)
        /\ Unwrap(pane.tiles[Index(pane, p)].cell).kind = "Diode"
        /\ IsSome(Pane_offset(pane, p,
                      into_offset(Unwrap(pane.tiles[Index(pane, p)].cell).direction)))

\* the cell the Diode at p points at
RingNext(pane, p) ==
    Unwrap(Pane_offset(pane, p,
               into_offset(Unwrap(pane.tiles[Index(pane, p)].cell).direction)))

\* the cells of pane n of w that hold a signal
Holders(w, n) == {p \in Positions(w[n]) : IsSome(Cell(w, n, p).signal)}

\* the pane after k more calls of Pane::step
RECURSIVE Steps(_, _)
Steps(pane, k) == IF k = 0 THEN pane ELSE Steps(Pane_step(pane).pane, k - 1)

ResistorRan(n, p) ==
    /\ last.op = "Pane::step" /\ last.pane = n
    /\ IsSome(Cell(pre, n, p).cell)
    /\ Unwrap(Cell(pre, n, p).cell).kind = "Resistor"
    /\ Invocations(n, p) = 1

\* C24: a Resistor delays a signal by one tick.  The tick in which its cell
\* holds a signal, the Resistor takes the signal into self.signal, unchanged,
\* sends it nowhere, and its cell ends the tick Active and without a signal; the
\* tick after, it sends the signal it holds, with its own direction, to the next
\* cell in its direction if that cell accepts it, which then holds it and is
\* Active.  Through the chain Diode, Resistor, Resistor, Diode a signal given to
\* the first Diode is in a cell slot after the ticks 1, 3 and 5 only, one cell
\* further each time: each Resistor adds one tick.
ResistorDelays ==
    /\ \A n \in DOMAIN world : \A p \in Positions(pre[n]) :
          ResistorRan(n, p) =>
              LET before == Cell(pre, n, p)
                  d0 == Unwrap(before.cell).direction
                  held == Unwrap(before.cell).signal
                  q == Pane_offset(pre[n], p, into_offset(d0))
                  forwarded == [direction |-> d0, position |-> Unwrap(q),
                                stack |-> Unwrap(held).stack]
                  alone == RuleAlone(n, p).commit
              IN /\ Unwrap(Cell(world, n, p).cell).signal = before.signal
                 /\ SentTo(n, p) = 0 => IsNone(Cell(world, n, p).signal)
                 /\ (IsSome(before.signal) /\ SentTo(n, p) = 0) =>
                        Cell(world, n, p).state = "Active"
                 /\ IF IsSome(held) /\ Open(n, p, d0)
                    THEN /\ alone.signals =
                               <<<<Unwrap(q)[1], Unwrap(q)[2], Some(forwarded)>>>>
                         /\ SentTo(n, Unwrap(q)) = 1 =>
                               /\ Cell(world, n, Unwrap(q)).signal = Some(forwarded)
                               /\ Cell(world, n, Unwrap(q)).state = "Active"
                    ELSE alone.signals = << >>
    /\ (/\ world["main"].width = 4
        /\ last.op = "set_signal" /\ last.ok /\ last.position = <<0, 0>>
        /\ Unwrap(last.signal).direction = "Right"
        /\ injects = 1) =>
          LET After(k) == Holders([m \in {"main"} |-> Steps(world["main"], k)], "main")
          IN /\ After(1) = {<<1, 0>>} /\ After(2) = {}
             /\ After(3) = {<<2, 0>>} /\ After(4) = {}
             /\ After(5) = {<<3, 0>>} /\ After(6) = {}

\* the fifth step of a run took the signal out of the second Resistor of the
\* chain, which held it while no cell did, into the last Diode
ResistorDelaysWitness ==
    /\ world["main"].width = 4
    /\ ResistorRan("main", <<2, 0>>)
    /\ ticks = 5 /\ injects = 1
    /\ IsSome(Unwrap(Cell(pre, "main", <<2, 0>>).cell).signal)
    /\ Holders(pre, "main") = {}
    /\ Holders(world, "main") = {<<3, 0>>}
    /\ IsNone(Unwrap(Cell(world, "main", <<2, 0>>).cell).signal)

(***************************************************************************)
(* Specification of the Teleporter: a world of two panes whose Teleporters *)
(* point at a cell of their pane, at a cell of the other pane, at their    *)
(* own cell, at a cell another Teleporter points at, and at an empty cell. *)
(***************************************************************************)
\* main:  Teleporter(main, 1, 1)  Teleporter(sub, 0, 0)
\*        Teleporter(main, 0, 1)  Wire(Any)
PortalMain ==
    test_tile_setup(2, 2, <<Some(Teleporter("main", 1, 1)), Some(Teleporter("sub", 0, 0)),
                            Some(Teleporter("main", 0, 1)), Some(Wire("Any"))>>)

\* sub:  Wire(Any)  ()  Teleporter(main, 1, 1)  Teleporter(sub, 1, 0)
PortalSub ==
    test_tile_setup(4, 1, <<Some(Wire("Any")), None, Some(Teleporter("main", 1, 1)),
                            Some(Teleporter("sub", 1, 0))>>)

PortalWorld == [n \in {"main", "sub"} |-> IF n = "main" THEN PortalMain ELSE PortalSub]

InitPortal == InitWith(PortalWorld)

NextPortal == SetSignal \/ WorldStep

SpecPortal == InitPortal /\ [][NextPortal]_vars

\* the number of outbound signals of the last step for the cell at t of pane m
OutboundTo(m, t) ==
    Cardinality({k \in 1..Len(last.outbound_signals) :
                    last.outbound_signals[k][1] = <<m, t[1], t[2]>>})

EmittedTo(coordinates) ==
    LET for == SelectSeq(last.outbound_signals, LAMBDA o : o[1] = coordinates)
    IN [k \in 1..Len(for) |-> for[k][2]]

\* C26: a signal taken in by a Sender of length L enters the queue of the Sender
\* with age 0; every later tick invokes the Sender and adds exactly 1 to the age
\* of each queued signal; a signal is emitted outbound to the target of the
\* Sender in the tick in which its age reaches L (the tick that takes it in when
\* L = 0) and in no earlier tick, so that no queued signal has an age of L or
\* more; and the cell of the Sender holds no signal while the queue does.
SenderDelays ==
    \A n \in DOMAIN world : \A p \in Positions(pre[n]) :
        (/\ last.op = "Pane::step" /\ last.pane = n
         /\ IsSome(Cell(pre, n, p).cell)
         /\ Unwrap(Cell(pre, n, p).cell).kind = "Sender") =>
            LET sender == Unwrap(Cell(pre, n, p).cell)
                taken == Cell(pre, n, p).signal
                queue == Unwrap(Cell(world, n, p).cell).signals
                staying == SelectSeq(sender.signals, LAMBDA e : e[2] + 1 < sender.length)
                leaving == SelectSeq(sender.signals, LAMBDA e : e[2] + 1 >= sender.length)
            IN /\ (Len(sender.signals) > 0 \/ IsSome(taken)) => Invocations(n, p) = 1
               /\ \A k \in 1..Len(queue) : queue[k][2] < sender.length
               /\ Invocations(n, p) = 1 =>
                     /\ queue =
                           [k \in 1..Len(staying) |-> <<staying[k][1], staying[k][2] + 1>>]
                           \o (IF IsSome(taken) /\ sender.length > 0
                               THEN <<<<Unwrap(taken), 0>>>> ELSE << >>)
                     /\ EmittedTo(sender.coordinates) =
                           [k \in 1..Len(leaving) |-> leaving[k][1]]
                           \o (IF IsSome(taken) /\ sender.length = 0
                               THEN <<Unwrap(taken)>> ELSE << >>)
                     /\ \A k \in 1..Len(leaving) : leaving[k][2] + 1 = sender.length
                     /\ SentTo(n, p) = 0 => IsNone(Cell(world, n, p).signal)
               /\ Invocations(n, p) = 0 =>
                     /\ queue = sender.signals
                     /\ EmittedTo(sender.coordinates) = << >>

\* the Sender of length 2 emitted a signal of age 1, two ticks after the tick
\* that took it in, while it took in another signal with age 0
SenderDelaysWitness ==
    /\ world["main"].width = 3 /\ world["main"].height = 1
    /\ last.op = "Pane::step"
    /\ IsSome(Cell(pre, "main", <<2, 0>>).cell)
    /\ Unwrap(Cell(pre, "main", <<2, 0>>).cell).kind = "Sender"
    /\ Len(Unwrap(Cell(pre, "main", <<2, 0>>).cell).signals) = 1
    /\ Unwrap(Cell(pre, "main", <<2, 0>>).cell).signals[1][2] = 1
    /\ EmittedTo(<<"out", 2, 0>>) =
          <<Unwrap(Cell(pre, "main", <<2, 0>>).cell).signals[1][1]>>
    /\ IsSome(Cell(pre, "main", <<2, 0>>).signal)
    /\ Unwrap(Cell(world, "main", <<2, 0>>).cell).signals =
          <<<<Unwrap(Cell(pre, "main", <<2, 0>>).signal), 0>>>>

(***************************************************************************)
(* Specification of the commands on one cell: a world of one pane, signals *)
(* set with Pane::set_signal, and up to MaxCommands calls of the commands  *)
(* dir and copy of the command line and of FullTile::next_state.           *)
(***************************************************************************)
MaxCommands == 3

\* main:  Wire(Any)  ()
CellWorld ==
    [n \in {"main"} |-> test_tile_setup(2, 1, <<Some(Wire("Any")), None>>)]

\* the coordinates the commands are given: those of the cells, one to the left
\* of the pane and one to its right
Coordinates == {<<x, 0>> : x \in -1..2}

\* World::get_mut_with_pos: the first pane, in the order of iteration, that
\* holds the coordinates, and the position of the cell in that pane
RECURSIVE get_mut_with_pos(_, _, _, _)
get_mut_with_pos(panes, order, xy, i) ==
    IF i > Len(order) THEN None
    ELSE LET pane == panes[order[i]]
             x2 == xy[1] - pane.position[1]
             y2 == xy[2] - pane.position[2]
         IN IF x2 >= 0 /\ x2 < pane.width /\ y2 >= 0 /\ y2 < pane.height
            THEN Some(<<order[i], <<x2, y2>>>>)
            ELSE get_mut_with_pos(panes, order, xy, i + 1)

\* a command, with the coordinates and the direction it was given and whether
\* it found its cells
CmdOp(op, xy, target, direction, ok) ==
    [op |-> op, pane |-> "main", position |-> xy, signal |-> None, ok |-> ok,
     order |-> << >>, logs |-> NoLogs, sent |-> NoLogs, outbound_signals |-> << >>,
     target |-> target, direction |-> direction]

\* dir(world, x, y, direction) of the command line
dir(panes, order, xy, direction) ==
    LET Turn(pane, pos, tk) ==
            IF IsSome(tk.signal)
            THEN Pane_put(pane, pos,
                          FullTile_set_signal(tk.tile,
                              Some(moved(Unwrap(tk.signal), direction))).tile)
            ELSE Pane_put(pane, pos, tk.tile)
        At(name, pos) ==
            [panes EXCEPT ![name] =
                Turn(panes[name], pos,
                     FullTile_take_signal(Unwrap(Pane_get(panes[name], pos))))]
        Found(f) == IF IsNone(f) THEN panes ELSE At(Unwrap(f)[1], Unwrap(f)[2])
    IN Found(get_mut_with_pos(panes, order, xy, 1))

\* copy(world, x, y, x2, y2) of the command line
copy(panes, order, xy, xy2) ==
    LET Place(tk, pos) ==
            IF IsSome(tk.signal)
            THEN FullTile_set_signal(tk.tile,
                                     Some(set_position(Unwrap(tk.signal), pos))).tile
            ELSE tk.tile
        Write(from, name, pos) ==
            [panes EXCEPT ![name] =
                Pane_put(panes[name], pos, Place(FullTile_take_signal(from), pos))]
        To(from, t) == IF IsNone(t) THEN panes ELSE Write(from, Unwrap(t)[1], Unwrap(t)[2])
        From(f) ==
            IF IsNone(f) THEN panes
            ELSE To(FullTile_clone(Unwrap(Pane_get(panes[Unwrap(f)[1]], Unwrap(f)[2]))),
                    get_mut_with_pos(panes, order, xy2, 1))
    IN From(get_mut_with_pos(panes, order, xy, 1))

InitCell == InitWith(CellWorld)

CmdDir ==
    /\ cellops < MaxCommands
    /\ \E order \in Orders(DOMAIN world) :
       \E xy \in Coordinates :
       \E direction \in Direction :
          /\ world' = dir(world, order, xy, direction)
          /\ last' = CmdOp("dir", xy, xy, direction,
                           IsSome(get_mut_with_pos(world, order, xy, 1)))
    /\ pre' = world
    /\ alt' = world'
    /\ cellops' = cellops + 1
    /\ UNCHANGED <<edits, injects, ticks>>

CmdCopy ==
    /\ cellops < MaxCommands
    /\ \E order \in Orders(DOMAIN world) :
       \E xy \in Coordinates :
       \E xy2 \in Coordinates :
          /\ world' = copy(world, order, xy, xy2)
          /\ last' = CmdOp("copy", xy, xy2, "Up",
                           /\ IsSome(get_mut_with_pos(world, order, xy, 1))
                           /\ IsSome(get_mut_with_pos(world, order, xy2, 1)))
    /\ pre' = world
    /\ alt' = world'
    /\ cellops' = cellops + 1
    /\ UNCHANGED <<edits, injects, ticks>>

\* pane.get_mut(position).unwrap().next_state()
CellNextState ==
    /\ cellops < MaxCommands
    /\ \E name \in DOMAIN world :
       \E position \in Positions(world[name]) :
          LET t == FullTile_next_state(Unwrap(Pane_get(world[name], position)))
          IN /\ world' = [world EXCEPT ![name] = Pane_put(world[name], position, t)]
             /\ last' = Op("FullTile::next_state", name, position, None, TRUE)
    /\ pre' = world
    /\ alt' = world'
    /\ cellops' = cellops + 1
    /\ UNCHANGED <<edits, injects, ticks>>

NextCell == SetSignal \/ CmdDir \/ CmdCopy \/ CellNextState

SpecCell == InitCell /\ [][NextCell]_vars

\* the signals the cells of the world hold and the signals Pane::set_signal is
\* given
SignalsAround ==
    InjectSignals \cup
    {Unwrap(Cell(world, "main", p).signal) :
        p \in {q \in Positions(world["main"]) : IsSome(Cell(world, "main", q).signal)}}

\* C27: s.moved(d) has the direction d and the position and the stack of s;
\* s.moved(d1).moved(d2) is s.moved(d2); clone_move(d) gives what moved(d)
\* gives.  The command dir, which puts s.moved(d) in the place of the signal s
\* of a cell, leaves there a signal with direction d and the position and the
\* stack of s.
MovedTurnsOnly ==
    /\ \A s \in SignalsAround : \A d1, d2 \in Direction :
          /\ moved(s, d1).direction = d1
          /\ moved(s, d1).position = s.position
          /\ moved(s, d1).stack = s.stack
          /\ moved(moved(s, d1), d2) = moved(s, d2)
          /\ clone_move(s, d1) = moved(s, d1)
          /\ DOMAIN moved(s, d1) = {"direction", "position", "stack"}
    /\ (last.op = "dir" /\ last.ok /\ IsSome(Cell(pre, "main", last.position).signal)) =>
          Cell(world, "main", last.position).signal =
              Some([direction |-> last.direction,
                    position |-> Unwrap(Cell(pre, "main", last.position).signal).position,
                    stack |-> Unwrap(Cell(pre, "main", last.position).signal).stack])

\* dir turned a signal with a stack of two values from Down to Left
MovedTurnsOnlyWitness ==
    /\ last.op = "dir" /\ last.ok /\ last.direction = "Left"
    /\ IsSome(Cell(pre, "main", last.position).signal)
    /\ Unwrap(Cell(pre, "main", last.position).signal).direction = "Down"
    /\ Len(Unwrap(Cell(pre, "main", last.position).signal).stack) = 2
    /\ Unwrap(Cell(world, "main", last.position).signal).direction = "Left"

\* C28: State::next takes Idle to Active, Active to Dormant and Dormant to
\* Idle, so three applications take every state back to itself and fewer do
\* not; FullTile::next_state moves the state of a cell one step along this
\* cycle; of the three states only Idle accepts signals, and a cell that
\* accepts a signal is Idle.
StateCycles ==
    /\ \A s \in State :
          /\ State_next(s) =
                (CASE s = "Idle" -> "Active"
                   [] s = "Active" -> "Dormant"
                   [] s = "Dormant" -> "Idle")
          /\ State_next(s) # s
          /\ State_next(State_next(s)) # s
          /\ State_next(State_next(State_next(s))) = s
          /\ State_accepts_signal(s) <=> s = "Idle"
    /\ last.op = "FullTile::next_state" =>
          /\ Cell(world, last.pane, last.position).state =
                (CASE Cell(pre, last.pane, last.position).state = "Idle" -> "Active"
                   [] Cell(pre, last.pane, last.position).state = "Active" -> "Dormant"
                   [] Cell(pre, last.pane, last.position).state = "Dormant" -> "Idle")
          /\ \A d \in Direction :
                FullTile_accepts_signal(Cell(world, last.pane, last.position), d) =>
                    Cell(pre, last.pane, last.position).state = "Dormant"

\* the third next_state in a row on the Wire took it from Dormant back to
\* Idle, where it accepts signals again
StateCyclesWitness ==
    /\ last.op = "FullTile::next_state" /\ last.position = <<0, 0>>
    /\ cellops = 3 /\ injects = 0
    /\ Cell(pre, "main", <<0, 0>>).state = "Dormant"
    /\ Cell(world, "main", <<0, 0>>).state = "Idle"
    /\ FullTile_accepts_signal(Cell(world, "main", <<0, 0>>), "Up")
    /\ IsNone(Cell(world, "main", <<1, 0>>).cell)
    /\ Cell(world, "main", <<1, 0>>).state = "Idle"

\* C29: cloning a FullTile that holds a signal yields a FullTile with the same
\* tile and the same state and with no signal; so the cell that copy writes
\* the clone of such a FullTile to holds that tile and that state and no
\* signal.
CloneDropsSignal ==
    /\ \A p \in Positions(world["main"]) :
          IsSome(Cell(world, "main", p).signal) =>
              /\ FullTile_clone(Cell(world, "main", p)).cell = Cell(world, "main", p).cell
              /\ FullTile_clone(Cell(world, "main", p)).state = Cell(world, "main", p).state
              /\ IsNone(FullTile_clone(Cell(world, "main", p)).signal)
    /\ (last.op = "copy" /\ last.ok /\ IsSome(Cell(pre, "main", last.position).signal)) =>
          /\ Cell(world, "main", last.target).cell = Cell(pre, "main", last.position).cell
          /\ Cell(world, "main", last.target).state = Cell(pre, "main", last.position).state
          /\ IsNone(Cell(world, "main", last.target).signal)

\* the rule of the Script called keep() while its context held the signal
Kept ==
    \E i \in 1..Len(Results) : Results[i].call.fn = "keep" /\ IsSome(Results[i].signal)

\* C30: a cell whose rule is invoked in a tick loses the signal it held at tick
\* start, whether or not the rule calls take_signal: after Pane::step such a
\* cell holds a signal only if its rule called keep() while the context held
\* the signal, or if a send or force_send of a rule of that tick was for it.
SignalConsumed ==
    last.op = "Pane::step" =>
        \A p \in Positions(pre["main"]) :
            (Invocations("main", p) = 1 /\ IsSome(Cell(world, "main", p).signal)) =>
                \/ Writes(p) >= 1
                \/ p = ScriptPosition /\ Kept

\* the rule of the Script made no call at all, and its cell, which held a
\* signal at tick start, holds none after the step
SignalConsumedWitness ==
    /\ RuleRan
    /\ Results = << >>
    /\ IsSome(Cell(pre, "main", ScriptPosition).signal)
    /\ IsNone(Cell(world, "main", ScriptPosition).signal)
    /\ Writes(ScriptPosition) = 0

\* the rule of the cell at p, invoked in the last step, recorded for its own
\* cell a state other than Active
Overridden(p) ==
    /\ Invocations("main", p) = 1
    /\ \E k \in 1..Len(RuleAlone("main", p).commit.states) :
          LET e == RuleAlone("main", p).commit.states[k]
          IN <<e[1], e[2]>> = p /\ e[3] \in {"Dormant", "Idle"}

\* C31: UpdateCommit::apply clears the updated flags, then applies the recorded
\* states, then the signal writes: after Pane::step no cell is flagged updated,
\* every non-empty cell a signal was written to in the tick is Active, whatever
\* state was recorded for it in the same tick, and the new roster is the list
\* of the positions of the signal writes, in the order they were recorded.
SignalWritesWin ==
    last.op = "Pane::step" =>
        /\ \A p \in Positions(world["main"]) : ~Cell(world, "main", p).updated
        /\ \A p \in Positions(world["main"]) :
              (Writes(p) >= 1 /\ IsSome(Cell(world, "main", p).cell)) =>
                  Cell(world, "main", p).state = "Active"
        /\ world["main"].signals =
              [k \in 1..Len(last.sent["main"]) |->
                  <<last.sent["main"][k][1], last.sent["main"][k][2]>>]

\* a cell whose own rule recorded Dormant or Idle for it received a signal in
\* the same tick and is Active and listed after the step
SignalWritesWinWitness ==
    /\ last.op = "Pane::step"
    /\ \E p \in Positions(world["main"]) :
          /\ Overridden(p)
          /\ Writes(p) >= 1
          /\ IsSome(Cell(world, "main", p).cell)
          /\ Cell(world, "main", p).state = "Active"
          /\ InRoster(world["main"], p)

\* the indices, in the commit buffer of the last step, of the writes to p
WritesAt(p) ==
    {k \in 1..Len(last.sent["main"]) :
        <<last.sent["main"][k][1], last.sent["main"][k][2]>> = p}

\* the greatest element of a non-empty set of integers
Latest(S) == CHOOSE k \in S : \A j \in S : j <= k

\* C32: when the rules of one tick write two or more signals to the same cell
\* (a cell that holds a tile), after the commit the cell holds the signal of
\* the write recorded last in the commit buffer, and none of the earlier ones.
LastWriterWins ==
    last.op = "Pane::step" =>
        \A p \in Positions(world["main"]) :
            (Writes(p) >= 1 /\ IsSome(Cell(world, "main", p).cell)) =>
                Cell(world, "main", p).signal = last.sent["main"][Latest(WritesAt(p))][3]

\* two rules wrote different signals to one cell, which holds the later one
LastWriterWinsWitness ==
    /\ last.op = "Pane::step"
    /\ \E p \in Positions(world["main"]) :
          /\ Writes(p) = 2
          /\ IsSome(Cell(world, "main", p).cell)
          /\ \E i, j \in WritesAt(p) :
                /\ i < j
                /\ last.sent["main"][i][3] # last.sent["main"][j][3]
                /\ Cell(world, "main", p).signal = last.sent["main"][j][3]

(***************************************************************************)
(* Specification of the neighbour reads: the Script of RulePane reads one  *)
(* position with get and asks accepts_signal for it, for every position of *)
(* the pane, one past its right edge, and every direction.                 *)
(***************************************************************************)
ProbeScripts ==
    {<<Call("get", p, d), Call("accepts_signal", p, d)>> :
        p \in InputPositions(Pane_empty(2, 2)), d \in Direction}

InitProbe == \E calls \in ProbeScripts : InitWith([n \in {"main"} |-> RulePane(calls)])

NextProbe == SetSignal \/ PaneStep

SpecProbe == InitProbe /\ [][NextProbe]_vars

\* C33: during a rule the context does not expose the cell being updated: for
\* the position of that cell get is None and accepts_signal is false for every
\* direction, for a position out of bounds as well, and for every other
\* position get returns the cell at that position (its tile and its state as
\* they were at tick start, its signal unless its rule has already taken it)
\* and accepts_signal is the answer of that cell.
SelfHidden ==
    RuleRan =>
        \A i \in 1..Len(Results) :
            LET q == Results[i].call.position
                d == Results[i].call.direction
                hidden == q = ScriptPosition \/ ~in_bounds(pre["main"], q)
            IN /\ Results[i].call.fn = "get" =>
                    IF hidden THEN Results[i].got = None
                    ELSE /\ IsSome(Results[i].got)
                         /\ Unwrap(Results[i].got).cell = Cell(pre, "main", q).cell
                         /\ Unwrap(Results[i].got).state = Cell(pre, "main", q).state
                         /\ Unwrap(Results[i].got).signal \in
                                {None, Cell(pre, "main", q).signal}
               /\ Results[i].call.fn = "accepts_signal" =>
                    IF hidden THEN ~Results[i].ok
                    ELSE Results[i].ok = FullTile_accepts_signal(Cell(pre, "main", q), d)

\* the rule of the Script read its own position and got nothing, and was told
\* that its own cell accepts no signal
SelfHiddenWitness ==
    /\ RuleRan
    /\ Len(Results) = 2
    /\ Results[1].call.fn = "get"
    /\ Results[1].call.position = ScriptPosition
    /\ Results[1].got = None
    /\ Results[2].call.fn = "accepts_signal"
    /\ ~Results[2].ok

(***************************************************************************)
(* Specification of World::get_bounds: a world of one or two panes that    *)
(* Pane::set_position moves around, and whose bounds are asked for.        *)
(***************************************************************************)
\* the coordinates Pane::set_position is given, on both sides of the origin
Offsets == {-3, 0, 2}

\* main:  Wire(Any)  ()        sub:  Diode(Up)
\*                                   ()
BoundsWorlds ==
    {CellWorld,
     [n \in {"main", "sub"} |->
        IF n = "main" THEN CellWorld["main"]
        ELSE test_tile_setup(1, 2, <<Some(Diode("Up")), None>>)]}

Min2(a, b) == IF a <= b THEN a ELSE b

Max2(a, b) == IF a >= b THEN a ELSE b

\* self.panes.values().fold((0, 0, 0, 0), ...), the values in the given order
RECURSIVE get_bounds(_, _, _, _)
get_bounds(panes, order, acc, i) ==
    IF i > Len(order) THEN acc
    ELSE LET act == panes[order[i]]
         IN get_bounds(panes, order,
                       <<Min2(acc[1], act.position[1]),
                         Max2(acc[2], act.position[1] + act.width),
                         Min2(acc[3], act.position[2]),
                         Max2(acc[4], act.position[2] + act.height)>>,
                       i + 1)

InitBounds == \E w \in BoundsWorlds : InitWith(w)

\* pane.set_position(position)
SetPosition ==
    /\ cellops < MaxCommands
    /\ \E name \in DOMAIN world :
       \E x \in Offsets :
       \E y \in Offsets :
          /\ world' = [world EXCEPT ![name].position = <<x, y>>]
          /\ last' = CmdOp("Pane::set_position", <<x, y>>, <<x, y>>, "Up", TRUE)
    /\ pre' = world
    /\ alt' = world'
    /\ cellops' = cellops + 1
    /\ UNCHANGED <<edits, injects, ticks>>

\* world.get_bounds(); the answer is kept in last.target and last.position as
\* <<x0, x1>> and <<y0, y1>>
GetBounds ==
    /\ cellops < MaxCommands
    /\ \E order \in Orders(DOMAIN world) :
       \E b \in {get_bounds(world, order, <<0, 0, 0, 0>>, 1)} :
          last' = CmdOp("World::get_bounds", <<b[3], b[4]>>, <<b[1], b[2]>>, "Up", TRUE)
    /\ world' = world
    /\ pre' = world
    /\ alt' = world
    /\ cellops' = cellops + 1
    /\ UNCHANGED <<edits, injects, ticks>>

NextBounds == SetPosition \/ GetBounds

SpecBounds == InitBounds /\ [][NextBounds]_vars

\* the least and the greatest element of a non-empty set of integers
Least(S) == CHOOSE k \in S : \A j \in S : k <= j

Greatest(S) == CHOOSE k \in S : \A j \in S : j <= k

\* C34: World::get_bounds returns the enclosing rectangle of the panes: the
\* least x, the greatest x + width, the least y and the greatest y + height
\* over the panes, wherever the panes are.
BoundsEnclose ==
    last.op = "World::get_bounds" =>
        /\ last.target[1] = Least({world[n].position[1] : n \in DOMAIN world})
        /\ last.target[2] =
              Greatest({world[n].position[1] + world[n].width : n \in DOMAIN world})
        /\ last.position[1] = Least({world[n].position[2] : n \in DOMAIN world})
        /\ last.position[2] =
              Greatest({world[n].position[2] + world[n].height : n \in DOMAIN world})

\* C35: after any sequence of Pane::set_signal, Pane::set_tile, Pane::step and
\* World::step, every signal held in the signal slot of a cell has for position
\* the coordinates of that cell in its pane.
PositionsAgree ==
    \A n \in DOMAIN world :
        \A p \in Positions(world[n]) :
            IsSome(Cell(world, n, p).signal) =>
                Unwrap(Cell(world, n, p).signal).position = p

\* a cell holds, with its own coordinates for position, a signal that a rule of
\* the last step sent to it, a signal that was given to Pane::set_signal with
\* another position
PositionsAgreeWitness ==
    /\ IsStep
    /\ \E n \in DOMAIN world :
       \E p \in Positions(world[n]) :
          /\ SentTo(n, p) >= 1
          /\ IsSome(Cell(world, n, p).signal)
          /\ Unwrap(Cell(world, n, p).signal).position = p
          /\ \A s \in InjectSignals : s.position # p

\* C36: in panes of Wire, Diode, Resistor, Teleporter and Sender tiles driven
\* by Pane::set_tile, Pane::set_signal, Pane::step and World::step, every cell
\* that holds a signal is Active and listed in the roster of its pane, so the
\* next step visits it.
HeldIsDue ==
    \A n \in DOMAIN world :
        \A p \in Positions(world[n]) :
            IsSome(Cell(world, n, p).signal) =>
                /\ Cell(world, n, p).state = "Active"
                /\ InRoster(world[n], p)

\* after a step a cell holds a signal that a rule of that step sent to it, and
\* it is Active and listed
HeldIsDueWitness ==
    /\ IsStep
    /\ \E n \in DOMAIN world :
       \E p \in Positions(world[n]) :
          /\ SentTo(n, p) >= 1
          /\ IsSome(Cell(world, n, p).signal)
          /\ Cell(world, n, p).state = "Active"
          /\ InRoster(world[n], p)
          /\ p \in DueCells(world[n])

\* the state of the cell at p after each of the next two steps of the pane, or
\* << >> when one of these steps writes a signal to p
Cooling(pane, p) ==
    LET Second(s1, s2) ==
            IF SentIn([signals |-> s2.sent], p) # {} THEN << >>
            ELSE <<Unwrap(Pane_get(s1.pane, p)).state, Unwrap(Pane_get(s2.pane, p)).state>>
        First(s1) ==
            IF SentIn([signals |-> s1.sent], p) # {} THEN << >>
            ELSE Second(s1, Pane_step(s1.pane))
    IN First(Pane_step(pane))

\* C37: a Wire or Diode cell that is Active and holds a signal, of any
\* direction, is Dormant after the next tick and Idle after the one after it,
\* when no signal is written to it in these two ticks.
CoolsInTwoTicks ==
    \A p \in Positions(world["main"]) :
        (/\ IsSome(Cell(world, "main", p).cell)
         /\ Unwrap(Cell(world, "main", p).cell).kind \in {"Wire", "Diode"}
         /\ Cell(world, "main", p).state = "Active"
         /\ IsSome(Cell(world, "main", p).signal)) =>
            Cooling(world["main"], p) \in {<< >>, <<"Dormant", "Idle">>}

\* the pane holds Wire, Diode and Teleporter tiles only, and no signal
Settling(pane) ==
    \A p \in Positions(pane) :
        /\ IsNone(Unwrap(Pane_get(pane, p)).signal)
        /\ IsSome(Unwrap(Pane_get(pane, p)).cell) =>
              Unwrap(Unwrap(Pane_get(pane, p)).cell).kind \in {"Wire", "Diode", "Teleporter"}

\* every cell of the pane is Idle and the roster is empty
Quiet(pane) ==
    /\ pane.signals = << >>
    /\ \A p \in Positions(pane) : Unwrap(Pane_get(pane, p)).state = "Idle"

\* Pane::step leaves the pane as it is and returns no outbound signal
Still(pane) ==
    LET Same(r) == r.pane = pane /\ r.outbound_signals = << >>
    IN Same(Pane_step(pane))

\* C38: a pane of Wire, Diode and Teleporter tiles in which no cell holds a
\* signal is, after two steps, a pane whose cells are all Idle and whose roster
\* is empty, and every further Pane::step leaves that pane unchanged and
\* returns no outbound signal.
Quiesces ==
    \A n \in DOMAIN world :
        Settling(world[n]) =>
            LET Rest(pane) == Quiet(pane) /\ Still(pane)
            IN Rest(Steps(world[n], 2))

\* after a step a pane holds no signal while one of its cells is Active and
\* another Dormant; it is not quiet after one more step, and quiet after two
QuiescesWitness ==
    /\ last.op = "Pane::step"
    /\ Settling(world["main"])
    /\ \E p, q \in Positions(world["main"]) :
          /\ Cell(world, "main", p).state = "Active"
          /\ Cell(world, "main", q).state = "Dormant"
    /\ ~Quiet(Steps(world["main"], 1))
    /\ Quiet(Steps(world["main"], 2))

(***************************************************************************)
(* Specification of the Senders over time: the pane of three Senders, of   *)
(* lengths 0, 1 and 2, given signals with Pane::set_signal and stepped for *)
(* ever: the caller of Pane::step keeps calling it.  Here ticks is the     *)
(* parity of the number of steps made; Tick is always possible, it always  *)
(* changes ticks and it alone does, so that weak fairness of Tick is weak  *)
(* fairness of the change of ticks.                                        *)
(***************************************************************************)
InitQueue == InitWith([n \in {"main"} |-> QueuePane])

\* pane.step(), called again and again; the caller drops the outbound signals
Tick ==
    /\ \E r \in {Pane_step(world["main"])} :
          /\ world' = [world EXCEPT !["main"] = r.pane]
          /\ last' = StepOp("Pane::step", "main", << >>,
                            [NoLogs EXCEPT !["main"] = r.log],
                            [NoLogs EXCEPT !["main"] = r.sent], r.outbound_signals)
    /\ alt' = world'
    /\ pre' = world
    /\ ticks' = (ticks + 1) % 2
    /\ UNCHANGED <<edits, injects, cellops>>

NextQueue == SetSignal \/ Tick

\* one more call of Pane::step, as the count of the steps shows it
Clock == ticks' = (ticks + 1) % 2

SpecQueue == InitQueue /\ [][NextQueue]_vars /\ WF_ticks(Clock)

\* the queue of the Sender at p
Queue(w, p) == Unwrap(Cell(w, "main", p).cell).signals

\* the last step has emitted the signal to the target of the Sender at p
Emitted(p, signal) ==
    /\ last.op = "Pane::step"
    /\ \E k \in 1..Len(last.outbound_signals) :
          last.outbound_signals[k] =
              <<Unwrap(Cell(world, "main", p).cell).coordinates, signal>>

\* a Sender whose queue holds a signal is not Idle, and every step invokes the
\* rule of a Sender whose queue held a signal before the step
Awake ==
    \A p \in Positions(QueuePane) :
        /\ Len(Queue(world, p)) > 0 => Cell(world, "main", p).state # "Idle"
        /\ (last.op = "Pane::step" /\ Len(Queue(pre, p)) > 0) => Invocations("main", p) = 1

\* a signal leaves the queue of a Sender in a step only by being emitted
Leaves ==
    last.op = "Pane::step" =>
        \A p \in Positions(QueuePane) :
            \A k \in 1..Len(Queue(pre, p)) :
                \/ \E j \in 1..Len(Queue(world, p)) :
                       Queue(world, p)[j] =
                           <<Queue(pre, p)[k][1], Queue(pre, p)[k][2] + 1>>
                \/ Emitted(p, Queue(pre, p)[k][1])

\* C39: the cell of a Sender is not Idle as long as its queue holds a signal,
\* so every tick updates it until the queue is empty; a signal leaves the queue
\* only by being emitted outbound, and a queue that holds a signal is
\* eventually empty, so every signal that enters a Sender is eventually
\* emitted; the cell is Idle only when its queue is empty.
SenderDrains ==
    /\ [](Awake /\ Leaves)
    /\ \A p \in Positions(QueuePane) :
          (Len(Queue(world, p)) > 0) ~> (Len(Queue(world, p)) = 0)

\* the Sender of length 2, Dormant with a signal in its queue, was invoked by
\* the last step, which emitted that signal and left the queue empty and the
\* cell Idle
SenderDrainsWitness ==
    /\ last.op = "Pane::step"
    /\ Cell(pre, "main", <<2, 0>>).state = "Dormant"
    /\ Len(Queue(pre, <<2, 0>>)) = 1
    /\ Invocations("main", <<2, 0>>) = 1
    /\ Emitted(<<2, 0>>, Queue(pre, <<2, 0>>)[1][1])
    /\ Len(Queue(world, <<2, 0>>)) = 0
    /\ Cell(world, "main", <<2, 0>>).state = "Idle"

(***************************************************************************)
(* Specification of the Wires: panes of every size up to MaxSide by        *)
(* MaxSide, every cell holding a Wire of the same orientation.             *)
(***************************************************************************)
MaxSide == 3

WirePanes ==
    {test_tile_setup(w, h, [i \in 1..(w * h) |-> Some(Wire(o))]) :
        w \in 1..MaxSide, h \in 1..MaxSide, o \in Orientation}

InitWires == \E pane \in WirePanes : InitWith([n \in {"main"} |-> pane])

SpecWires == InitWires /\ [][NextTiles]_vars

\* the context Pane::update gives to the rule of the cell at p of pane n, as it
\* was before the last step
ContextOf(n, p) ==
    UpdateContext_new([pre[n] EXCEPT !.signals = << >>], p, UpdateCommit_new).ctx

\* C40: the unreachable!() of Wire::update is not reached: for a Wire that
\* holds a signal, whenever accepts_direction(d) returns a position, the
\* force_send of the signal to that position succeeds, whatever the size of
\* the pane, the position of the Wire and its orientation.
ForceSendReachable ==
    \A p \in Positions(pre["main"]) :
        Carried("main", p, "Wire") =>
            \A d \in Direction :
                LET Sent(ctx, pos) ==
                        IsSome(pos) =>
                            /\ ctx_in_bounds(ctx, Unwrap(pos))
                            /\ ctx_force_send(ctx, Unwrap(pos),
                                   clone_move(Unwrap(ctx.signal), d)).ok
                    Asked(ctx) == Sent(ctx, ctx_accepts_direction(ctx, d))
                IN Asked(ContextOf("main", p))

\* a Wire(Any) in the middle of the 3 by 3 pane held a signal, and the step
\* sent it to a neighbour in the last column, which accepts_direction returned
ForceSendReachableWitness ==
    /\ last.op = "Pane::step"
    /\ pre["main"].width = MaxSide /\ pre["main"].height = MaxSide
    /\ Carried("main", <<1, 1>>, "Wire")
    /\ ctx_accepts_direction(ContextOf("main", <<1, 1>>), "Right") = Some(<<2, 1>>)
    /\ SentTo("main", <<2, 1>>) = 1
    /\ IsSome(Cell(world, "main", <<2, 1>>).signal)

====
